---- MODULE Spec2Model ----
(***************************************************************************)
(* Trading journal (Tandrews/New-Trading-Journal): the trade list, the     *)
(* portfolio balance and the IndexedDB object stores, as kept by the       *)
(* handlers of the v2.4 revision (src/unnamed/part_001), with the add,     *)
(* update and delete operations of the v3.0 revision                       *)
(* (src/unnamed/part_002), the add-trade handler of the merge-ready        *)
(* revision and the import of the original revision                        *)
(* (src/unnamed/part_000).                                                 *)
(*                                                                         *)
(* An async handler of v2.4 is a flow: it runs synchronously up to its     *)
(* next await on a store request, and is resumed when that request         *)
(* completes.  Nothing in the code keeps a second UI event from starting   *)
(* another handler while a flow is suspended, so flows interleave at       *)
(* their awaits.  Requests on one object store complete in the order in    *)
(* which they were issued; requests on different stores in any order.      *)
(* A write request may be rejected by the store.                           *)
(*                                                                         *)
(* Amounts are whole numbers (the arithmetic of the handlers is exact on   *)
(* them); dates are day numbers.                                           *)
(***************************************************************************)
EXTENDS Integers, Sequences, FiniteSets, TLC

VARIABLES
    rev,             \* the revision that is running
    page,            \* "constructed", "ready" (init succeeded), "failed" (init threw)
    listeners,       \* setupEventListeners has attached the handlers
    store,           \* object store 'trades': the set of stored records, keyed by id
    nextId,          \* key generator of the 'trades' store (autoIncrement)
    settingsStore,   \* object store 'portfolioSettings': << >> or <<record 'main'>>
    trades,          \* this.trades (v3.0: allTrades)
    filteredTrades,  \* this.filteredTrades
    startingCapital, \* this.startingCapital (v3.0: portfolioSettings.startingCapital)
    currentBalance,  \* this.currentBalance (v3.0: portfolioSettings.currentBalance)
    previewData,     \* this.previewData is non-null
    batch,           \* the array object this.previewData last referred to
    flows,           \* the handler flows: position, locals, and what they showed
    pending,         \* flows suspended on a store request, in the order of issue
    shown,           \* the message shown last: by which handler, its type, what it reports
    adjustments,     \* history: sum of the manual adjustments made by the settings form
    lastAdd,         \* history: the add that has just completed alone, << >> if none
    failed,          \* history: some store write has been rejected
    overlapped,      \* history: some handler has started while another was in flight
    ops,             \* number of UI events so far
    portfolioHistory, \* this.portfolioHistory (merge-ready), as stored in 'portfolioHistory'
    call             \* the pure function last applied: its name, argument and result

\* The state of the journal page.
journal == << rev, page, listeners, store, nextId, settingsStore, trades, filteredTrades,
              startingCapital, currentBalance, previewData, batch, flows, pending, shown,
              adjustments, lastAdd, failed, overlapped, ops, portfolioHistory >>

vars == << rev, page, listeners, store, nextId, settingsStore, trades, filteredTrades,
           startingCapital, currentBalance, previewData, batch, flows, pending, shown,
           adjustments, lastAdd, failed, overlapped,
           ops, portfolioHistory, call >>

(***************************************************************************)
(* Bounds of the model.                                                    *)
(***************************************************************************)
MaxFlows == 2
MaxOps == 3
MaxBatch == 2
MaxDate == 2

FlowIds == 1..MaxFlows
Dates == 1..MaxDate

(***************************************************************************)
(* Values.                                                                 *)
(***************************************************************************)
\* Text typed in a numeric form field, and the number parseFloat reads from it.
NumTexts == {"-50", "30"}
FeeTexts == {"", "-1"}

CapitalTexts == {"", "100"}
BalanceTexts == {"", "120"}

IsNumber(s) == s \in {"-50", "30", "-1", "0", "100", "120", "10", "12", "110", "2"}

NumberOf(s) ==
    CASE s = "-50" -> -50
      [] s = "30"  -> 30
      [] s = "-1"  -> -1
      [] s = "100" -> 100
      [] s = "120" -> 120
      [] s = "10"  -> 10
      [] s = "12"  -> 12
      [] s = "110" -> 110
      [] s = "2"   -> 2
      [] OTHER     -> 0

\* parseFloat(s) || d : NaN and 0 are both falsy.
ParseFloatOr(s, d) == IF IsNumber(s) /\ NumberOf(s) # 0 THEN NumberOf(s) ELSE d

ToUpperCase(s) ==
    CASE s = "spy" -> "SPY"
      [] OTHER     -> s

Outcome(pl) == IF pl >= 0 THEN "Win" ELSE "Loss"

\* A trade object.  ref is not a field of the program's objects: it names the element
\* of the preview array that this entry of this.trades is the same object as (0: none).
Trade(id, date, ticker, strategy, premium, fees, pl, outcome, ref) ==
    [id |-> id, date |-> date, ticker |-> ticker, strategy |-> strategy,
     premium |-> premium, fees |-> fees, net_pl |-> pl, outcome |-> outcome, ref |-> ref]

NoTrade == Trade(0, 0, "", "", 0, 0, 0, "", 0)

\* The structured clone the store keeps of an object: values only.
Clone(t) == [t EXCEPT !.ref = 0]

Range(s) == {s[k] : k \in 1..Len(s)}

RECURSIVE SumPL(_)
SumPL(s) == IF s = << >> THEN 0 ELSE Head(s).net_pl + SumPL(Tail(s))

Ids(s) == {s[k].id : k \in 1..Len(s)}

\* Array.prototype.filter(t => t.id !== id)
RemoveId(s, id) == SelectSeq(s, LAMBDA t : t.id # id)

\* findIndex(t => t.id === id) and assignment at that index, if any.
FindIndex(s, id) ==
    IF \E k \in 1..Len(s) : s[k].id = id
    THEN CHOOSE k \in 1..Len(s) : s[k].id = id /\ \A j \in 1..(k-1) : s[j].id # id
    ELSE 0

ReplaceAtIndex(s, id, t) ==
    IF FindIndex(s, id) = 0 THEN s ELSE [s EXCEPT ![FindIndex(s, id)] = t]

\* sort((a, b) => new Date(b.date) - new Date(a.date)): stable, descending by date.
RECURSIVE SortByDateDesc(_)
InsertByDate(sorted, t) ==
    LET keep == SelectSeq(sorted, LAMBDA u : u.date >= t.date)
        rest == SelectSeq(sorted, LAMBDA u : u.date < t.date)
    IN  keep \o <<t>> \o rest
SortByDateDesc(s) ==
    IF s = << >> THEN << >>
    ELSE InsertByDate(SortByDateDesc(SubSeq(s, 1, Len(s) - 1)), s[Len(s)])

(***************************************************************************)
(* The stores.                                                             *)
(***************************************************************************)
StoreIds == {r.id : r \in store}

\* db.get('trades', id): << >> for undefined.
DbGet(id) == IF id \in StoreIds THEN <<CHOOSE r \in store : r.id = id>> ELSE << >>

\* db.add('trades', rec): with no id the key generator assigns one; with an id that
\* is already a key of the store the request fails (ConstraintError).
AddKey(rec) == IF rec.id = 0 THEN nextId ELSE rec.id
AddConflicts(rec) == rec.id # 0 /\ rec.id \in StoreIds
StoreAfterAdd(rec) == store \cup {[Clone(rec) EXCEPT !.id = AddKey(rec)]}
NextIdAfterAdd(rec) == IF AddKey(rec) >= nextId THEN AddKey(rec) + 1 ELSE nextId

\* db.put('trades', rec), rec.id set: insert or replace.
StoreAfterPut(rec) == {r \in store : r.id # rec.id} \cup {Clone(rec)}

\* db.delete('trades', id)
StoreAfterDelete(id) == {r \in store : r.id # id}

Settings(sc, cb) == [startingCapital |-> sc, currentBalance |-> cb]

(***************************************************************************)
(* Flows.                                                                  *)
(***************************************************************************)
Form(date, ticker, strategy, premium, fees) ==
    [date |-> date, ticker |-> ticker, strategy |-> strategy,
     premium |-> premium, fees |-> fees]

NoForm == Form(0, "", "", "", "")

IdleFlow ==
    [kind |-> "none", pc |-> "idle", id |-> 0, form |-> NoForm, req |-> NoTrade,
     reqSettings |-> Settings(0, 0), i |-> 0, mode |-> "", successCount |-> 0,
     totalPL |-> 0, originalPL |-> 0,
     rejected |-> FALSE,                  \* history: a write of this flow was rejected
     bal0 |-> 0, pl0 |-> 0,               \* history: balance, target's net_pl at start
     solo |-> FALSE]                      \* history: no other flow ran during this one

InFlight(f) == flows[f].pc # "idle"

Quiescent == \A f \in FlowIds : ~InFlight(f)

\* The object store a suspended flow's request is on.
StoreOf(f) ==
    IF flows[f].pc \in {"add_save", "edit_save", "del_save", "imp_save", "set_save"}
    THEN "portfolioSettings" ELSE "trades"

\* The request of flow f can complete: none issued earlier on the same store is waiting.
CanComplete(f) ==
    \E k \in 1..Len(pending) :
        /\ pending[k] = f
        /\ \A j \in 1..(k-1) : StoreOf(pending[j]) # StoreOf(f)

Dequeue(f) == SelectSeq(pending, LAMBDA g : g # f)

\* A handler started by a UI event takes a free slot.
FreeSlot == CHOOSE f \in FlowIds : ~InFlight(f) /\ \A g \in FlowIds : ~InFlight(g) => f <= g

CanStart == /\ listeners
            /\ ops < MaxOps
            /\ \E f \in FlowIds : ~InFlight(f)

\* flows after the handler described by rec has started in slot f.
Started(f, rec) ==
    [g \in FlowIds |->
        IF g = f THEN [rec EXCEPT !.solo = Quiescent, !.bal0 = currentBalance]
        ELSE IF InFlight(g) THEN [flows[g] EXCEPT !.solo = FALSE]
        ELSE flows[g]]

\* flows after flow f has moved on with the changes of rec.
Moved(f, rec) == [flows EXCEPT ![f] = rec]

\* flows after a UI event whose handler returns before any await.
Interrupted ==
    [g \in FlowIds |-> IF InFlight(g) THEN [flows[g] EXCEPT !.solo = FALSE] ELSE flows[g]]

\* The handler that finished last and its showMessage(type, ...): msg is the type
\* ("none": it returned without a message), reports names the values the text gives.
\* rejected (history): a store write of that handler was rejected.
Shown(kind, msg, reports, rejected) ==
    [kind |-> kind, msg |-> msg, reports |-> reports, rejected |-> rejected]

NoShown == Shown("none", "none", {}, FALSE)

PLOf(s, id) == IF FindIndex(s, id) = 0 THEN 0 ELSE s[FindIndex(s, id)].net_pl

\* lastAdd after a UI event: only the delete of the trade just added keeps it.
LastAddAfter(kind, id) ==
    IF lastAdd # << >> /\ kind = "delete" /\ lastAdd[1].id = id THEN lastAdd ELSE << >>

(***************************************************************************)
(* v2.4: page load.                                                        *)
(***************************************************************************)
\* db.getAll('trades'): the records in key order.
RECURSIVE GetAll(_)
GetAll(S) ==
    IF S = {} THEN << >>
    ELSE LET first == CHOOSE r \in S : \A q \in S : r.id <= q.id
         IN  <<first>> \o GetAll(S \ {first})

\* loadAllData
LoadedTrades == SortByDateDesc(GetAll(store))

\* loadPortfolioSettings: if (settings) { this.startingCapital = ... || 0; ... };
\* the fields keep the values sc and cb they have when no record is stored.
LoadedSettings(sc, cb) ==
    IF settingsStore = << >> THEN Settings(sc, cb) ELSE settingsStore[1]

\* A variant of the next definition: setupEventListeners() is called before initDB.
ListenersAfterInit_Always(opened) == TRUE

\* setupEventListeners() follows the await on initDB inside the try block of init.
ListenersAfterInit(opened) == opened

\* init(): initDB, loadAllData, loadPortfolioSettings, setupEventListeners; when
\* initDB throws, the catch block only alerts.
init ==
    /\ rev = "v2.4"
    /\ page = "constructed"
    /\ \E opened \in BOOLEAN :
          /\ listeners' = ListenersAfterInit(opened)
          /\ IF opened
             THEN /\ page' = "ready"
                  /\ trades' = LoadedTrades
                  /\ filteredTrades' = LoadedTrades
                  /\ startingCapital' =
                         LoadedSettings(startingCapital, currentBalance).startingCapital
                  /\ currentBalance' =
                         LoadedSettings(startingCapital, currentBalance).currentBalance
                  /\ shown' = Shown("init", "success", {}, FALSE)
             ELSE /\ page' = "failed"
                  /\ shown' = Shown("init", "error", {}, FALSE)
                  /\ UNCHANGED << trades, filteredTrades, startingCapital,
                                  currentBalance >>
    /\ UNCHANGED << failed, call, portfolioHistory, rev, store, nextId, settingsStore, previewData, batch, flows,
                    pending, adjustments, lastAdd, overlapped, ops >>

\* The page is reloaded: the constructor runs again, the stores are kept.
Reload ==
    /\ rev = "v2.4"
    /\ page # "constructed"
    /\ Quiescent
    /\ ops < MaxOps
    /\ page' = "constructed"
    /\ listeners' = FALSE
    /\ trades' = << >>
    /\ filteredTrades' = << >>
    /\ startingCapital' = 0
    /\ currentBalance' = 0
    /\ previewData' = FALSE
    /\ batch' = << >>
    /\ shown' = NoShown
    /\ lastAdd' = << >>
    /\ ops' = ops + 1
    /\ overlapped' = (overlapped \/ ~Quiescent)
    /\ UNCHANGED << failed, call, portfolioHistory, rev, store, nextId, settingsStore, flows, pending, adjustments >>

(***************************************************************************)
(* v2.4: handleAddTrade.                                                   *)
(***************************************************************************)
AddForms == {Form(d, t, s, p, x) : d \in 0..MaxDate, t \in {"", "spy"},
                                   s \in {"", "CSP"}, p \in NumTexts, x \in FeeTexts}

\* The trade object built from the add-trade form.
FormTrade(form) ==
    LET premium == ParseFloatOr(form.premium, 0)
        fees    == ParseFloatOr(form.fees, 0)
    IN  Trade(0, form.date, ToUpperCase(form.ticker), form.strategy, premium, fees,
              premium + fees, Outcome(premium + fees), 0)

\* if (!trade.date || !trade.ticker || !trade.strategy)
MissingRequired(t) == t.date = 0 \/ t.ticker = "" \/ t.strategy = ""

\* Submission of the add-trade form, up to the await on db.add.
handleAddTradeOf(form) ==
    /\ rev = "v2.4"
    /\ CanStart
    /\ IF MissingRequired(FormTrade(form))
       THEN /\ flows' = Interrupted
            /\ shown' = Shown("add", "error", {}, FALSE)
            /\ pending' = pending
       ELSE /\ flows' = Started(FreeSlot, [IdleFlow EXCEPT !.kind = "add",
                                  !.pc = "add_add", !.req = FormTrade(form)])
            /\ shown' = shown
            /\ pending' = Append(pending, FreeSlot)
    /\ lastAdd' = << >>
    /\ ops' = ops + 1
    /\ overlapped' = (overlapped \/ ~Quiescent)
    /\ UNCHANGED << failed, call, portfolioHistory, rev, page, listeners, store, nextId, settingsStore, trades,
                    filteredTrades, startingCapital, currentBalance, previewData, batch,
                    adjustments >>

handleAddTrade == \E form \in AddForms : handleAddTradeOf(form)

\* db.add has completed: the trade is put first in this.trades, the balance grows,
\* and savePortfolioSettings issues its put.  A rejected add ends in the catch block.
handleAddTrade_add ==
    \E f \in FlowIds, ok \in BOOLEAN :
        /\ flows[f].pc = "add_add"
        /\ CanComplete(f)
        /\ LET fl == flows[f]
               t  == [fl.req EXCEPT !.id = AddKey(fl.req)]
           IN  IF ok /\ ~AddConflicts(fl.req)
               THEN /\ store' = StoreAfterAdd(fl.req)
                    /\ nextId' = NextIdAfterAdd(fl.req)
                    /\ trades' = <<t>> \o trades
                    /\ filteredTrades' = <<t>> \o trades
                    /\ currentBalance' = currentBalance + t.net_pl
                    /\ flows' = Moved(f, [fl EXCEPT !.pc = "add_save", !.id = t.id,
                           !.req = NoTrade,
                           !.reqSettings = Settings(startingCapital,
                                                    currentBalance + t.net_pl)])
                    /\ shown' = shown
                    /\ pending' = Append(Dequeue(f), f)
               ELSE /\ flows' = Moved(f, IdleFlow)
                    /\ shown' = Shown("add", "error", {}, TRUE)
                    /\ pending' = Dequeue(f)
                    /\ UNCHANGED << store, nextId, trades, filteredTrades,
                                    currentBalance >>
        /\ failed' = (failed \/ ~(ok /\ ~AddConflicts(flows[f].req)))
        /\ UNCHANGED << call, portfolioHistory, rev, page, listeners, settingsStore, startingCapital,
                        previewData, batch, adjustments, lastAdd, overlapped, ops >>

\* savePortfolioSettings has returned (true, or false after a rejected put: the
\* result is not looked at); the success message is shown.
handleAddTrade_save ==
    \E f \in FlowIds, ok \in BOOLEAN :
        /\ flows[f].pc = "add_save"
        /\ CanComplete(f)
        /\ settingsStore' = IF ok THEN <<flows[f].reqSettings>> ELSE settingsStore
        /\ flows' = Moved(f, IdleFlow)
        /\ shown' = Shown("add", "success", {"net_pl"}, ~ok)
        /\ lastAdd' = IF flows[f].solo
                       THEN <<[id |-> flows[f].id, bal0 |-> flows[f].bal0]>>
                       ELSE lastAdd
        /\ pending' = Dequeue(f)
        /\ failed' = (failed \/ ~ok)
        /\ UNCHANGED << call, portfolioHistory, rev, page, listeners, store, nextId, trades, filteredTrades,
                        startingCapital, currentBalance, previewData, batch,
                        adjustments, overlapped, ops >>

(***************************************************************************)
(* v2.4: handleEditTrade.                                                  *)
(***************************************************************************)
EditForms == {Form(d, "spy", "CSP", p, "") : d \in Dates, p \in NumTexts}

\* updatedTrade, built from the fields of the edit form.
EditedTrade(id, form) == [FormTrade(form) EXCEPT !.id = id]

\* plDifference
PLDifference(updated, originalPL) == updated.net_pl - originalPL

\* Up to the await on db.get, for the trade id and the fields of the edit form.
handleEditTradeOf(id, form) ==
    /\ rev = "v2.4"
    /\ CanStart
    /\ flows' = Started(FreeSlot,
           [IdleFlow EXCEPT !.kind = "edit", !.pc = "edit_get", !.id = id,
                            !.form = form, !.pl0 = PLOf(trades, id)])
    /\ pending' = Append(pending, FreeSlot)
    /\ lastAdd' = << >>
    /\ ops' = ops + 1
    /\ overlapped' = (overlapped \/ ~Quiescent)
    /\ UNCHANGED << failed, call, portfolioHistory, rev, page, listeners, store, nextId, settingsStore, trades,
                    filteredTrades, startingCapital, currentBalance, previewData, batch,
                    shown, adjustments >>

\* The form was opened on a trade of the table and its fields were edited.
handleEditTrade ==
    \E id \in Ids(filteredTrades), form \in EditForms : handleEditTradeOf(id, form)

\* db.get has completed: originalTrade.created_at throws when the record is gone.
handleEditTrade_get ==
    \E f \in FlowIds :
        /\ flows[f].pc = "edit_get"
        /\ CanComplete(f)
        /\ LET fl == flows[f]
               originalTrade == DbGet(fl.id)
           IN  IF originalTrade = << >>
               THEN /\ flows' = Moved(f, IdleFlow)
                    /\ shown' = Shown("edit", "error", {}, FALSE)
                    /\ pending' = Dequeue(f)
               ELSE /\ flows' = Moved(f, [fl EXCEPT !.pc = "edit_put",
                           !.originalPL = originalTrade[1].net_pl,
                           !.req = EditedTrade(fl.id, fl.form), !.form = NoForm])
                    /\ shown' = shown
                    /\ pending' = Append(Dequeue(f), f)
        /\ UNCHANGED << failed, call, portfolioHistory, rev, page, listeners, store, nextId, settingsStore, trades,
                        filteredTrades, startingCapital, currentBalance, previewData,
                        batch, adjustments, lastAdd, overlapped, ops >>

\* db.put has completed: the balance moves by plDifference and is saved.
handleEditTrade_put ==
    \E f \in FlowIds, ok \in BOOLEAN :
        /\ flows[f].pc = "edit_put"
        /\ CanComplete(f)
        /\ LET fl == flows[f]
               balance == currentBalance + PLDifference(fl.req, fl.originalPL)
           IN  IF ok
               THEN /\ store' = StoreAfterPut(fl.req)
                    /\ currentBalance' = balance
                    /\ flows' = Moved(f, [fl EXCEPT !.pc = "edit_save",
                           !.reqSettings = Settings(startingCapital, balance)])
                    /\ shown' = shown
                    /\ pending' = Append(Dequeue(f), f)
               ELSE /\ flows' = Moved(f, IdleFlow)
                    /\ shown' = Shown("edit", "error", {}, TRUE)
                    /\ pending' = Dequeue(f)
                    /\ UNCHANGED << store, currentBalance >>
        /\ failed' = (failed \/ ~ok)
        /\ UNCHANGED << call, portfolioHistory, rev, page, listeners, nextId, settingsStore, trades,
                        filteredTrades, startingCapital, previewData, batch,
                        adjustments, lastAdd, overlapped, ops >>

\* savePortfolioSettings has returned: the entries of this.trades and
\* this.filteredTrades with the id are replaced.
handleEditTrade_save ==
    \E f \in FlowIds, ok \in BOOLEAN :
        /\ flows[f].pc = "edit_save"
        /\ CanComplete(f)
        /\ settingsStore' = IF ok THEN <<flows[f].reqSettings>> ELSE settingsStore
        /\ trades' = ReplaceAtIndex(trades, flows[f].id, flows[f].req)
        /\ filteredTrades' = ReplaceAtIndex(filteredTrades, flows[f].id, flows[f].req)
        /\ flows' = Moved(f, IdleFlow)
        /\ shown' = Shown("edit", "success", {"plDifference"}, ~ok)
        /\ pending' = Dequeue(f)
        /\ failed' = (failed \/ ~ok)
        /\ UNCHANGED << call, portfolioHistory, rev, page, listeners, store, nextId, startingCapital,
                        currentBalance, previewData, batch, adjustments, lastAdd,
                        overlapped, ops >>

(***************************************************************************)
(* v2.4: handlePortfolioSettings.                                          *)
(***************************************************************************)
\* Submission of the settings form, up to the await on savePortfolioSettings.
handlePortfolioSettingsOf(capital, balance) ==
    /\ rev = "v2.4"
    /\ CanStart
    /\    LET newStartingCapital == ParseFloatOr(capital, 0)
              newCurrentBalance  == ParseFloatOr(balance, 0)
          IN  IF newStartingCapital = 0
              THEN /\ flows' = Interrupted
                   /\ shown' = Shown("settings", "error", {}, FALSE)
                   /\ pending' = pending
                   /\ UNCHANGED << startingCapital, currentBalance, adjustments >>
              ELSE /\ startingCapital' = newStartingCapital
                   /\ currentBalance' = newCurrentBalance
                   /\ adjustments' = adjustments
                                       + (newCurrentBalance - currentBalance)
                                       - (newStartingCapital - startingCapital)
                   /\ flows' = Started(FreeSlot, [IdleFlow EXCEPT !.kind = "settings",
                          !.pc = "set_save",
                          !.reqSettings = Settings(newStartingCapital,
                                                   newCurrentBalance)])
                   /\ shown' = shown
                   /\ pending' = Append(pending, FreeSlot)
    /\ lastAdd' = << >>
    /\ ops' = ops + 1
    /\ overlapped' = (overlapped \/ ~Quiescent)
    /\ UNCHANGED << failed, call, portfolioHistory, rev, page, listeners, store, nextId, settingsStore, trades,
                    filteredTrades, previewData, batch >>

handlePortfolioSettings ==
    \E capital \in CapitalTexts, balance \in BalanceTexts :
        handlePortfolioSettingsOf(capital, balance)

\* if (saved) { ... showMessage('success', ...) }: nothing is shown otherwise.
handlePortfolioSettings_save ==
    \E f \in FlowIds, ok \in BOOLEAN :
        /\ flows[f].pc = "set_save"
        /\ CanComplete(f)
        /\ settingsStore' = IF ok THEN <<flows[f].reqSettings>> ELSE settingsStore
        /\ flows' = Moved(f, IdleFlow)
        /\ shown' = Shown("settings", IF ok THEN "success" ELSE "none", {}, ~ok)
        /\ pending' = Dequeue(f)
        /\ failed' = (failed \/ ~ok)
        /\ UNCHANGED << call, portfolioHistory, rev, page, listeners, store, nextId, trades, filteredTrades,
                        startingCapital, currentBalance, previewData, batch,
                        adjustments, lastAdd, overlapped, ops >>

(***************************************************************************)
(* v2.4: deleteTrade.                                                      *)
(***************************************************************************)
\* A variant of the next definition: the trade's net_pl is added.
BalanceAfterDelete_Added(balance, trade) == balance + trade.net_pl

\* this.currentBalance -= (trade.net_pl || 0)
BalanceAfterDelete(balance, trade) == balance - trade.net_pl

\* Up to the await on db.get; a declined confirm returns at once.
deleteTrade ==
    /\ rev = "v2.4"
    /\ CanStart
    /\ \E id \in Ids(filteredTrades), confirmed \in BOOLEAN :
          IF confirmed
          THEN /\ flows' = Started(FreeSlot, [IdleFlow EXCEPT !.kind = "delete",
                      !.pc = "del_get", !.id = id, !.pl0 = PLOf(trades, id)])
               /\ pending' = Append(pending, FreeSlot)
               /\ shown' = shown
               /\ lastAdd' = LastAddAfter("delete", id)
          ELSE /\ flows' = Interrupted
               /\ pending' = pending
               /\ shown' = Shown("delete", "none", {}, FALSE)
               /\ lastAdd' = << >>
    /\ ops' = ops + 1
    /\ overlapped' = (overlapped \/ ~Quiescent)
    /\ UNCHANGED << failed, call, portfolioHistory, rev, page, listeners, store, nextId, settingsStore, trades,
                    filteredTrades, startingCapital, currentBalance, previewData, batch,
                    adjustments >>

\* db.get has completed: if (trade) the balance is reduced and saved, before the
\* record is deleted.
deleteTrade_get ==
    \E f \in FlowIds :
        /\ flows[f].pc = "del_get"
        /\ CanComplete(f)
        /\ LET fl == flows[f]
               trade == DbGet(fl.id)
           IN  IF trade # << >>
               THEN /\ currentBalance' = BalanceAfterDelete(currentBalance, trade[1])
                    /\ flows' = Moved(f, [fl EXCEPT !.pc = "del_save",
                           !.reqSettings = Settings(startingCapital,
                               BalanceAfterDelete(currentBalance, trade[1]))])
               ELSE /\ currentBalance' = currentBalance
                    /\ flows' = Moved(f, [fl EXCEPT !.pc = "del_delete"])
        /\ pending' = Append(Dequeue(f), f)
        /\ UNCHANGED << failed, call, portfolioHistory, rev, page, listeners, store, nextId, settingsStore, trades,
                        filteredTrades, startingCapital, previewData, batch, shown,
                        adjustments, lastAdd, overlapped, ops >>

\* savePortfolioSettings has returned; db.delete is issued.
deleteTrade_save ==
    \E f \in FlowIds, ok \in BOOLEAN :
        /\ flows[f].pc = "del_save"
        /\ CanComplete(f)
        /\ settingsStore' = IF ok THEN <<flows[f].reqSettings>> ELSE settingsStore
        /\ flows' = Moved(f, [flows[f] EXCEPT !.pc = "del_delete",
                                              !.rejected = @ \/ ~ok])
        /\ pending' = Append(Dequeue(f), f)
        /\ failed' = (failed \/ ~ok)
        /\ UNCHANGED << call, portfolioHistory, rev, page, listeners, store, nextId, trades, filteredTrades,
                        startingCapital, currentBalance, previewData, batch, shown,
                        adjustments, lastAdd, overlapped, ops >>

\* db.delete has completed: the trade leaves this.trades and this.filteredTrades.
deleteTrade_delete ==
    \E f \in FlowIds, ok \in BOOLEAN :
        /\ flows[f].pc = "del_delete"
        /\ CanComplete(f)
        /\ IF ok
           THEN /\ store' = StoreAfterDelete(flows[f].id)
                /\ trades' = RemoveId(trades, flows[f].id)
                /\ filteredTrades' = RemoveId(filteredTrades, flows[f].id)
                /\ shown' = Shown("delete", "success", {}, flows[f].rejected)
           ELSE /\ shown' = Shown("delete", "error", {}, TRUE)
                /\ UNCHANGED << store, trades, filteredTrades >>
        /\ flows' = Moved(f, IdleFlow)
        /\ pending' = Dequeue(f)
        /\ lastAdd' = << >>
        /\ failed' = (failed \/ ~ok)
        /\ UNCHANGED << call, portfolioHistory, rev, page, listeners, nextId, settingsStore, startingCapital,
                        currentBalance, previewData, batch, adjustments, overlapped, ops >>

(***************************************************************************)
(* v2.4: CSV import.                                                       *)
(***************************************************************************)
\* The trades parseCSV accepts from the rows of a file.
PreviewTrades == {Trade(0, 1, "SPY", "CSP", 0, -1, -50, "Loss", 0),
                  Trade(0, MaxDate, "SPY", "CSP", 0, -1, 30, "Win", 0)}

PreviewBatches == UNION {[1..n -> PreviewTrades] : n \in 1..MaxBatch}

ImportInFlight == \E f \in FlowIds : InFlight(f) /\ flows[f].kind = "import"

\* The entries of an array that are the same object as element i of the preview
\* array see the id assigned to it.
WithAssignedId(s, i, id) ==
    [k \in 1..Len(s) |-> IF s[k].ref = i THEN [s[k] EXCEPT !.id = id] ELSE s[k]]

\* No flow iterates the preview array any more: its objects are ordinary trades.
Unreferenced(s) == [k \in 1..Len(s) |-> Clone(s[k])]

\* A variant of the preview that pushes the parsed rows straight into the list.
TradesAfterPreview_Appended(ts, parsed) == ts \o parsed

\* parseCSV assigns the parsed rows to this.previewData only; this.trades is not written.
TradesAfterPreview(ts, parsed) == ts

\* handleFileUpload, parseCSV: this.previewData is the parsed batch; a file with
\* no data row or no valid row shows an error and keeps the previous preview.
handleFileUpload ==
    /\ rev = "v2.4"
    /\ listeners
    /\ ops < MaxOps
    /\ ~ImportInFlight
    /\ \E parsed \in PreviewBatches \cup {<< >>} :
          IF parsed = << >>
          THEN /\ shown' = Shown("upload", "error", {}, FALSE)
               /\ UNCHANGED << previewData, batch, trades >>
          ELSE /\ previewData' = TRUE
               /\ batch' = parsed
               /\ trades' = TradesAfterPreview(trades, parsed)
               /\ shown' = Shown("upload", "success", {"trades.length"}, FALSE)
    /\ flows' = Interrupted
    /\ lastAdd' = << >>
    /\ ops' = ops + 1
    /\ overlapped' = (overlapped \/ ~Quiescent)
    /\ UNCHANGED << failed, call, portfolioHistory, rev, page, listeners, store, nextId, settingsStore,
                    filteredTrades, startingCapital, currentBalance, pending,
                    adjustments >>

\* Up to the first await: on db.clear in replace mode, on the first db.add otherwise.
commitImport ==
    /\ rev = "v2.4"
    /\ CanStart
    /\ \/ /\ ~previewData \/ batch = << >>
          /\ flows' = Interrupted
          /\ shown' = Shown("import", "error", {}, FALSE)
          /\ pending' = pending
       \/ /\ previewData /\ batch # << >>
          /\ \E mode \in {"append", "replace"}, confirmed \in BOOLEAN :
                IF mode = "replace" /\ ~confirmed
                THEN /\ flows' = Interrupted
                     /\ shown' = Shown("import", "none", {}, FALSE)
                     /\ pending' = pending
                ELSE /\ confirmed
                     /\ flows' = Started(FreeSlot,
                           IF mode = "replace"
                           THEN [IdleFlow EXCEPT !.kind = "import", !.mode = mode,
                                                 !.pc = "imp_clear"]
                           ELSE [IdleFlow EXCEPT !.kind = "import", !.mode = mode,
                                                 !.pc = "imp_add", !.i = 1,
                                                 !.req = batch[1]])
                     /\ shown' = shown
                     /\ pending' = Append(pending, FreeSlot)
    /\ lastAdd' = << >>
    /\ ops' = ops + 1
    /\ overlapped' = (overlapped \/ ~Quiescent)
    /\ UNCHANGED << failed, call, portfolioHistory, rev, page, listeners, store, nextId, settingsStore, trades,
                    filteredTrades, startingCapital, currentBalance, previewData, batch,
                    adjustments >>

\* db.clear has completed: this.trades = [], and the loop over this.previewData
\* starts (it throws when another flow has set this.previewData to null).
commitImport_clear ==
    \E f \in FlowIds, ok \in BOOLEAN :
        /\ flows[f].pc = "imp_clear"
        /\ CanComplete(f)
        /\ IF ~ok
           THEN /\ flows' = Moved(f, IdleFlow)
                /\ shown' = Shown("import", "error", {}, TRUE)
                /\ pending' = Dequeue(f)
                /\ UNCHANGED << store, trades >>
           ELSE /\ store' = {}
                /\ trades' = << >>
                /\ IF previewData
                   THEN /\ flows' = Moved(f, [flows[f] EXCEPT !.pc = "imp_add", !.i = 1,
                                                             !.req = batch[1]])
                        /\ shown' = shown
                        /\ pending' = Append(Dequeue(f), f)
                   ELSE /\ flows' = Moved(f, IdleFlow)
                        /\ shown' = Shown("import", "error", {}, FALSE)
                        /\ pending' = Dequeue(f)
        /\ failed' = (failed \/ ~ok)
        /\ UNCHANGED << call, portfolioHistory, rev, page, listeners, nextId, settingsStore, filteredTrades,
                        startingCapital, currentBalance, previewData, batch,
                        adjustments, lastAdd, overlapped, ops >>

\* db.add of preview trade i has completed: an added trade gets its id and is pushed
\* on this.trades, a rejected one is logged and skipped.  After the last one the
\* balance grows by totalPL and is saved.
commitImport_add ==
    \E f \in FlowIds, ok \in BOOLEAN :
        /\ flows[f].pc = "imp_add"
        /\ CanComplete(f)
        /\ LET fl == flows[f]
               i == fl.i
               added == ok /\ ~AddConflicts(fl.req)
               id == AddKey(fl.req)
               newBatch == IF added THEN [batch EXCEPT ![i].id = id] ELSE batch
               successCount == IF added THEN fl.successCount + 1 ELSE fl.successCount
               totalPL == IF added THEN fl.totalPL + batch[i].net_pl ELSE fl.totalPL
               after == [fl EXCEPT !.successCount = successCount, !.totalPL = totalPL,
                                   !.rejected = @ \/ ~added]
           IN  /\ batch' = newBatch
               /\ IF added
                  THEN /\ store' = StoreAfterAdd(fl.req)
                       /\ nextId' = NextIdAfterAdd(fl.req)
                       /\ trades' = Append(WithAssignedId(trades, i, id),
                                           [newBatch[i] EXCEPT !.ref = i])
                       /\ filteredTrades' = WithAssignedId(filteredTrades, i, id)
                  ELSE UNCHANGED << store, nextId, trades, filteredTrades >>
               /\ IF i < Len(batch)
                  THEN /\ flows' = Moved(f, [after EXCEPT !.i = i + 1,
                                                          !.req = newBatch[i + 1]])
                       /\ currentBalance' = currentBalance
                  ELSE /\ flows' = Moved(f, [after EXCEPT !.pc = "imp_save", !.i = 0,
                              !.req = NoTrade,
                              !.reqSettings = Settings(startingCapital,
                                                       currentBalance + totalPL)])
                       /\ currentBalance' = currentBalance + totalPL
        /\ pending' = Append(Dequeue(f), f)
        /\ failed' = (failed \/ ~(ok /\ ~AddConflicts(flows[f].req)))
        /\ UNCHANGED << call, portfolioHistory, rev, page, listeners, settingsStore, startingCapital,
                        previewData, shown, adjustments, lastAdd, overlapped, ops >>

\* savePortfolioSettings has returned: this.trades is sorted, the success message
\* reports successCount and totalPL, this.previewData = null.
commitImport_save ==
    \E f \in FlowIds, ok \in BOOLEAN :
        /\ flows[f].pc = "imp_save"
        /\ CanComplete(f)
        /\ LET last == \A g \in FlowIds \ {f} : ~(InFlight(g) /\ flows[g].kind = "import")
               sorted == SortByDateDesc(trades)
           IN  /\ trades' = IF last THEN Unreferenced(sorted) ELSE sorted
               /\ filteredTrades' = IF last THEN Unreferenced(sorted) ELSE sorted
               /\ batch' = IF last THEN << >> ELSE batch
        /\ settingsStore' = IF ok THEN <<flows[f].reqSettings>> ELSE settingsStore
        /\ flows' = Moved(f, IdleFlow)
        /\ shown' = Shown("import", "success", {"successCount", "totalPL"},
                          flows[f].rejected \/ ~ok)
        /\ previewData' = FALSE
        /\ pending' = Dequeue(f)
        /\ failed' = (failed \/ ~ok)
        /\ UNCHANGED << call, portfolioHistory, rev, page, listeners, store, nextId, startingCapital,
                        currentBalance, adjustments, lastAdd, overlapped, ops >>

(***************************************************************************)
(* v3.0 (src/unnamed/part_002): the add, update and delete operations,     *)
(* each run to its end before the next UI event.                           *)
(***************************************************************************)
\* The DOMContentLoaded handler: initDB, loadPortfolioSettings (which saves the
\* defaults when no record is stored), loadTrades, setupEventListeners.
DOMContentLoaded ==
    /\ rev = "v3.0"
    /\ page = "constructed"
    /\ \E opened \in BOOLEAN, saved \in BOOLEAN :
          IF opened
          THEN /\ page' = "ready"
               /\ shown' = shown
               /\ startingCapital' =
                      LoadedSettings(startingCapital, currentBalance).startingCapital
               /\ currentBalance' =
                      LoadedSettings(startingCapital, currentBalance).currentBalance
               /\ settingsStore' =
                      IF settingsStore = << >> /\ saved
                      THEN <<Settings(startingCapital, currentBalance)>>
                      ELSE settingsStore
               /\ failed' = (failed \/ (settingsStore = << >> /\ ~saved))
               /\ trades' = LoadedTrades
               /\ listeners' = TRUE
          ELSE /\ page' = "failed"
               /\ shown' = Shown("init", "error", {}, FALSE)
               /\ UNCHANGED << startingCapital, currentBalance, settingsStore, failed,
                               trades, listeners >>
    /\ UNCHANGED << call, portfolioHistory, rev, store, nextId, filteredTrades, previewData, batch, flows,
                    pending, adjustments, lastAdd, overlapped, ops >>

\* tradeData as handleAddTrade and handleEditTrade read it from the form: net_pl is
\* a field of the form.
TradeData == {Trade(0, d, "SPY", "CSP", 0, 0, NumberOf(p), Outcome(NumberOf(p)), 0) :
                  d \in Dates, p \in NumTexts}

\* handleAddTrade and addTrade: the balance grows once db.add has succeeded.
addTrade(tradeData) ==
    /\ rev = "v3.0"
    /\ listeners
    /\ ops < MaxOps
    /\ \E ok \in BOOLEAN, saved \in BOOLEAN :
          IF ok
          THEN /\ store' = StoreAfterAdd(tradeData)
               /\ nextId' = NextIdAfterAdd(tradeData)
               /\ trades' = <<[tradeData EXCEPT !.id = nextId]>> \o trades
               /\ currentBalance' = currentBalance + tradeData.net_pl
               /\ settingsStore' =
                      IF saved
                      THEN <<Settings(startingCapital, currentBalance + tradeData.net_pl)>>
                      ELSE settingsStore
               /\ shown' = Shown("add", "success", {}, ~saved)
               /\ lastAdd' = <<[id |-> nextId, bal0 |-> currentBalance]>>
               /\ failed' = (failed \/ ~saved)
          ELSE /\ shown' = Shown("add", "error", {}, TRUE)
               /\ lastAdd' = << >>
               /\ failed' = TRUE
               /\ UNCHANGED << store, nextId, trades, currentBalance, settingsStore >>
    /\ ops' = ops + 1
    /\ UNCHANGED << call, portfolioHistory, rev, page, listeners, filteredTrades, startingCapital, previewData,
                    batch, flows, pending, adjustments, overlapped >>

\* handleEditTrade and updateTrade: the balance is changed before db.put is awaited.
updateTrade(tradeData) ==
    /\ rev = "v3.0"
    /\ listeners
    /\ ops < MaxOps
    /\ tradeData.id \in Ids(trades)
    /\ LET oldPL == PLOf(trades, tradeData.id)
           newPL == tradeData.net_pl
           balance == currentBalance - oldPL + newPL
       IN  /\ currentBalance' = balance
           /\ \E ok \in BOOLEAN, saved \in BOOLEAN :
                 IF ok
                 THEN /\ store' = StoreAfterPut(tradeData)
                      /\ settingsStore' = IF saved
                                          THEN <<Settings(startingCapital, balance)>>
                                          ELSE settingsStore
                      /\ trades' = ReplaceAtIndex(trades, tradeData.id, tradeData)
                      /\ shown' = Shown("edit", "success", {}, ~saved)
                      /\ failed' = (failed \/ ~saved)
                 ELSE /\ shown' = Shown("edit", "error", {}, TRUE)
                      /\ failed' = TRUE
                      /\ UNCHANGED << store, settingsStore, trades >>
    /\ lastAdd' = << >>
    /\ ops' = ops + 1
    /\ UNCHANGED << call, portfolioHistory, rev, page, listeners, nextId, filteredTrades, startingCapital,
                    previewData, batch, flows, pending, adjustments, overlapped >>

\* confirmDeleteTrade and deleteTrade: the balance is reduced before db.delete is
\* awaited.
confirmDeleteTrade(tradeId) ==
    /\ rev = "v3.0"
    /\ listeners
    /\ ops < MaxOps
    /\ tradeId \in Ids(trades)
    /\ \E confirmed \in BOOLEAN, ok \in BOOLEAN, saved \in BOOLEAN :
          IF ~confirmed
          THEN /\ shown' = Shown("delete", "none", {}, FALSE)
               /\ UNCHANGED << currentBalance, store, settingsStore, trades, failed >>
          ELSE /\ currentBalance' = currentBalance - PLOf(trades, tradeId)
               /\ IF ok
                  THEN /\ store' = StoreAfterDelete(tradeId)
                       /\ settingsStore' =
                              IF saved
                              THEN <<Settings(startingCapital,
                                              currentBalance - PLOf(trades, tradeId))>>
                              ELSE settingsStore
                       /\ trades' = RemoveId(trades, tradeId)
                       /\ shown' = Shown("delete", "success", {}, ~saved)
                       /\ failed' = (failed \/ ~saved)
                  ELSE /\ shown' = Shown("delete", "error", {}, TRUE)
                       /\ failed' = TRUE
                       /\ UNCHANGED << store, settingsStore, trades >>
    /\ lastAdd' = << >>
    /\ ops' = ops + 1
    /\ UNCHANGED << call, portfolioHistory, rev, page, listeners, nextId, filteredTrades, startingCapital,
                    previewData, batch, flows, pending, adjustments, overlapped >>

(***************************************************************************)
(* The merge-ready revision (src/unnamed/part_000): handleAddTrade.        *)
(***************************************************************************)
\* init(): as in v2.4.
init_merge ==
    /\ rev = "merge-ready"
    /\ page = "constructed"
    /\ \E opened \in BOOLEAN :
          IF opened
          THEN /\ page' = "ready"
               /\ shown' = shown
               /\ trades' = LoadedTrades
               /\ filteredTrades' = LoadedTrades
               /\ startingCapital' =
                      LoadedSettings(startingCapital, currentBalance).startingCapital
               /\ currentBalance' =
                      LoadedSettings(startingCapital, currentBalance).currentBalance
               /\ listeners' = TRUE
          ELSE /\ page' = "failed"
               /\ shown' = Shown("init", "error", {}, FALSE)
               /\ UNCHANGED << trades, filteredTrades, startingCapital, currentBalance,
                               listeners >>
    /\ UNCHANGED << call, portfolioHistory, rev, store, nextId, settingsStore, previewData, batch, flows,
                    pending, adjustments, lastAdd, failed, overlapped, ops >>

MergeForm(date, ticker, strategy, entry, exit, quantity, premium, fees) ==
    [date |-> date, ticker |-> ticker, strategy |-> strategy, entry |-> entry,
     exit |-> exit, quantity |-> quantity, premium |-> premium, fees |-> fees]

\* Forms with one required field left empty or none, with both prices or neither.
MergeForms == {MergeForm(r[1], r[2], r[3], pr[1], pr[2], "", p, "") :
                  r \in {<<1, "spy", "CSP">>, <<0, "spy", "CSP">>, <<1, "", "CSP">>,
                         <<1, "spy", "">>},
                  pr \in {<<"", "">>, <<"10", "12">>}, p \in {"", "30"}}

\* netPL: from the prices when both are given, else from the premium.
MergeNetPL(form) ==
    LET entryPrice == ParseFloatOr(form.entry, 0)
        exitPrice  == ParseFloatOr(form.exit, 0)
        quantity   == ParseFloatOr(form.quantity, 1)
        premium    == ParseFloatOr(form.premium, 0)
        fees       == ParseFloatOr(form.fees, 0)
    IN  IF exitPrice # 0 /\ entryPrice # 0
        THEN ((exitPrice - entryPrice) * quantity) + premium + fees
        ELSE IF premium # 0 THEN premium + fees ELSE 0

MergeFormTrade(form) ==
    Trade(0, form.date, ToUpperCase(form.ticker), form.strategy,
          ParseFloatOr(form.premium, 0), ParseFloatOr(form.fees, 0), MergeNetPL(form),
          Outcome(MergeNetPL(form)), 0)

\* An entry of this.portfolioHistory.  before is not a field of the program's
\* objects: it is this.currentBalance before the change the entry records.
HistoryEntry(date, balance, change, type, before) ==
    [date |-> date, balance |-> balance, change |-> change, type |-> type,
     before |-> before]

\* addPortfolioHistoryEntry: db.add, push, and the stable sort by date of an array
\* that was sorted before the push; a rejected db.add is logged only.
addPortfolioHistoryEntry(history, entry, ok) ==
    IF ~ok
    THEN history
    ELSE LET at == CHOOSE j \in 0..Len(history) :
                      /\ \A i \in 1..j : history[i].date <= entry.date
                      /\ \A i \in (j + 1)..Len(history) : history[i].date > entry.date
         IN  SubSeq(history, 1, at) \o << entry >> \o SubSeq(history, at + 1, Len(history))

\* handleAddTrade: the form is not validated; the balance is updated and saved, and
\* a history entry is added, only when netPL !== 0.
handleAddTrade_merge(form) ==
    /\ rev = "merge-ready"
    /\ listeners
    /\ ops < MaxOps
    /\ LET trade == MergeFormTrade(form)
           netPL == trade.net_pl
       IN  \E ok \in BOOLEAN, saved \in BOOLEAN :
              IF ok
              THEN /\ store' = StoreAfterAdd(trade)
                   /\ nextId' = NextIdAfterAdd(trade)
                   /\ trades' = <<[trade EXCEPT !.id = nextId]>> \o trades
                   /\ filteredTrades' = <<[trade EXCEPT !.id = nextId]>> \o trades
                   /\ currentBalance' = currentBalance + netPL
                   /\ settingsStore' =
                          IF netPL # 0 /\ saved
                          THEN <<Settings(startingCapital, currentBalance + netPL)>>
                          ELSE settingsStore
                   /\ \E logged \in BOOLEAN :
                         portfolioHistory' =
                             IF netPL # 0
                             THEN addPortfolioHistoryEntry(portfolioHistory,
                                      HistoryEntry(trade.date, currentBalance + netPL,
                                                   netPL, "trade", currentBalance),
                                      logged)
                             ELSE portfolioHistory
                   /\ shown' = Shown("add", "success", {}, netPL # 0 /\ ~saved)
                   /\ failed' = (failed \/ (netPL # 0 /\ ~saved))
              ELSE /\ shown' = Shown("add", "error", {}, TRUE)
                   /\ failed' = TRUE
                   /\ UNCHANGED << store, nextId, trades, filteredTrades,
                                   currentBalance, settingsStore, portfolioHistory >>
    /\ lastAdd' = << >>
    /\ ops' = ops + 1
    /\ UNCHANGED << call, rev, page, listeners, startingCapital, previewData, batch, flows,
                    pending, adjustments, overlapped >>

(***************************************************************************)
(* The original revision (src/unnamed/part_000): the CSV import.           *)
(***************************************************************************)
\* init(): initDB, loadAllData, setupEventListeners.
init_original ==
    /\ rev = "original"
    /\ page = "constructed"
    /\ \E opened \in BOOLEAN :
          IF opened
          THEN /\ page' = "ready"
               /\ shown' = shown
               /\ trades' = LoadedTrades
               /\ filteredTrades' = LoadedTrades
               /\ listeners' = TRUE
          ELSE /\ page' = "failed"
               /\ shown' = Shown("init", "error", {}, FALSE)
               /\ UNCHANGED << trades, filteredTrades, listeners >>
    /\ UNCHANGED << call, portfolioHistory, rev, store, nextId, settingsStore, startingCapital, currentBalance,
                    previewData, batch, flows, pending, adjustments, lastAdd,
                    failed, overlapped, ops >>

\* handleFileUpload: this.previewData is the rows with a date, ticker and strategy.
handleFileUpload_original ==
    /\ rev = "original"
    /\ listeners
    /\ ops < MaxOps
    /\ \E parsed \in PreviewBatches :
          /\ previewData' = TRUE
          /\ batch' = parsed
    /\ shown' = Shown("upload", "success", {"previewData.length"}, FALSE)
    /\ ops' = ops + 1
    /\ UNCHANGED << call, portfolioHistory, rev, page, listeners, store, nextId, settingsStore, trades,
                    filteredTrades, startingCapital, currentBalance, flows, pending,
                    adjustments, lastAdd, failed, overlapped >>

\* The loop "for (const trade of this.previewData) { id = await db.add(trade);
\* trade.id = id }" from row k on: it has no try/catch of its own, and ends at the
\* first row whose db.add is rejected (oks[k] false, or the row's id is a key of the
\* store already).  added: the number of rows added.
RECURSIVE AddUntilRejected(_, _, _, _, _)
AddUntilRejected(st, nid, b, oks, k) ==
    IF k > Len(b)
    THEN [store |-> st, nextId |-> nid, batch |-> b, added |-> Len(b)]
    ELSE IF ~oks[k] \/ (b[k].id # 0 /\ b[k].id \in {r.id : r \in st})
    THEN [store |-> st, nextId |-> nid, batch |-> b, added |-> k - 1]
    ELSE LET key == IF b[k].id = 0 THEN nid ELSE b[k].id
         IN  AddUntilRejected(st \cup {[Clone(b[k]) EXCEPT !.id = key]},
                              IF key >= nid THEN key + 1 ELSE nid,
                              [b EXCEPT ![k].id = key], oks, k + 1)

\* commitImport: this.trades is replaced only after every row has been added; a
\* rejected db.add ends in the outer catch block.
commitImport_original(mode, confirmed, cleared, oks) ==
    /\ rev = "original"
    /\ listeners
    /\ ops < MaxOps
    /\ previewData /\ batch # << >>
    /\    IF mode = "replace" /\ ~confirmed
          THEN /\ shown' = Shown("import", "none", {}, FALSE)
               /\ UNCHANGED << store, nextId, trades, filteredTrades, batch,
                               previewData, failed >>
          ELSE IF mode = "replace" /\ ~cleared
          THEN /\ shown' = Shown("import", "error", {}, TRUE)
               /\ failed' = TRUE
               /\ UNCHANGED << store, nextId, trades, filteredTrades, batch,
                               previewData >>
          ELSE LET kept == IF mode = "replace" THEN << >> ELSE trades
                   r == AddUntilRejected(IF mode = "replace" THEN {} ELSE store,
                                         nextId, batch, oks, 1)
               IN  /\ store' = r.store
                   /\ nextId' = r.nextId
                   /\ batch' = r.batch
                   /\ IF r.added = Len(batch)
                      THEN /\ trades' = SortByDateDesc(r.batch \o kept)
                           /\ filteredTrades' = SortByDateDesc(r.batch \o kept)
                           /\ shown' = Shown("import", "success",
                                             {"previewData.length"}, FALSE)
                           /\ previewData' = FALSE
                           /\ failed' = failed
                      ELSE /\ trades' = kept
                           /\ shown' = Shown("import", "error", {}, TRUE)
                           /\ failed' = TRUE
                           /\ UNCHANGED << filteredTrades, previewData >>
    /\ ops' = ops + 1
    /\ UNCHANGED << call, portfolioHistory, rev, page, listeners, settingsStore, startingCapital,
                    currentBalance, flows, pending, adjustments, lastAdd, overlapped >>

(***************************************************************************)
(* The specification.                                                      *)
(***************************************************************************)
Revisions == {"v2.4", "v3.0", "merge-ready", "original"}

\* The starting capital and balance before any settings are loaded: 0 in the
\* constructor, 10000 in the portfolioSettings of v3.0.
DefaultCapital(r) == IF r = "v3.0" THEN 10000 ELSE 0


\* The page after the constructor of revision r has run.
Constructed(r) ==
    /\ rev = r
    /\ page = "constructed"
    /\ listeners = FALSE
    /\ store = {}
    /\ nextId = 1
    /\ settingsStore = << >>
    /\ trades = << >>
    /\ filteredTrades = << >>
    /\ startingCapital = DefaultCapital(r)
    /\ currentBalance = DefaultCapital(r)
    /\ previewData = FALSE
    /\ batch = << >>
    /\ flows = [f \in FlowIds |-> IdleFlow]
    /\ pending = << >>
    /\ shown = NoShown
    /\ adjustments = 0
    /\ lastAdd = << >>
    /\ failed = FALSE
    /\ overlapped = FALSE
    /\ ops = 0
    /\ portfolioHistory = << >>

\* A call of a function: its name, its argument and its result.
Call(fn, arg, res) == [fn |-> fn, arg |-> arg, res |-> res]

Init ==
    /\ \E r \in Revisions : Constructed(r)
    /\ call = Call("none", << >>, << >>)

Next ==
    \/ init
    \/ Reload
    \/ handleAddTrade
    \/ handleAddTrade_add
    \/ handleAddTrade_save
    \/ handleEditTrade
    \/ handleEditTrade_get
    \/ handleEditTrade_put
    \/ handleEditTrade_save
    \/ handlePortfolioSettings
    \/ handlePortfolioSettings_save
    \/ deleteTrade
    \/ deleteTrade_get
    \/ deleteTrade_save
    \/ deleteTrade_delete
    \/ handleFileUpload
    \/ commitImport
    \/ commitImport_clear
    \/ commitImport_add
    \/ commitImport_save
    \/ DOMContentLoaded
    \/ \E tradeData \in TradeData : addTrade(tradeData)
    \/ \E id \in Ids(trades), tradeData \in TradeData :
          updateTrade([tradeData EXCEPT !.id = id])
    \/ \E tradeId \in Ids(trades) : confirmDeleteTrade(tradeId)
    \/ init_merge
    \/ \E form \in MergeForms : handleAddTrade_merge(form)
    \/ init_original
    \/ handleFileUpload_original
    \/ \E mode \in {"append", "replace"}, confirmed \in BOOLEAN, cleared \in BOOLEAN,
          oks \in [1..Len(batch) -> BOOLEAN] :
          commitImport_original(mode, confirmed, cleared, oks)

Spec == Init /\ [][Next]_vars

(***************************************************************************)
(* Properties.                                                             *)
(***************************************************************************)
\* The page has loaded and no handler is in flight.
AtRest == page = "ready" /\ Quiescent

\* The records this.trades holds, as the values a store keeps.
Held == {Clone(trades[k]) : k \in 1..Len(trades)}

\* C1 (as claimed): in v2.4, after every completed operation the balance is the starting
\* capital plus the net_pl of the trades in this.trades plus the manual adjustments;
\* stated for the runs in which no store write was rejected and no two handlers
\* overlapped.
C1_BalanceInvariant ==
    (rev = "v2.4" /\ AtRest /\ ~failed /\ ~overlapped)
        => currentBalance = startingCapital + SumPL(trades) + adjustments

\* C4 (as claimed): in v2.4, after completed operations none of whose writes was
\* rejected, loading the page again yields the trade records and the starting capital
\* and balance that are in memory.
C4_SurvivesReload ==
    (rev = "v2.4" /\ AtRest /\ ~failed)
        => /\ Range(LoadedTrades) = Held
           /\ LoadedSettings(0, 0) = Settings(startingCapital, currentBalance)

\* C5 (as claimed): in v2.4, whenever no handler is in flight, this.trades holds exactly
\* the records of the 'trades' store, one entry for each.
C5_ListIsStore ==
    (rev = "v2.4" /\ AtRest) => (Held = store /\ Len(trades) = Cardinality(store))

\* C6 (as claimed): in v2.4 at most one handler is suspended on a store request at any
\* time, and at most one store request is outstanding.
C6_OneFlow ==
    rev = "v2.4" => (Cardinality({f \in FlowIds : InFlight(f)}) <= 1 /\ Len(pending) <= 1)

\* C9 (as claimed): in v2.4 a handler one of whose store writes was rejected shows an
\* error message, and no success message.
C9_FailureSurfaced ==
    (rev = "v2.4" /\ shown.rejected) => shown.msg = "error"

\* Flow f finishes in this step.
Finishes(f) == InFlight(f) /\ flows'[f].pc = "idle"

\* C2: in v2.4 and v3.0, the delete of the trade that was added last, with nothing in
\* between and nothing running beside either, changes the balance by exactly the
\* trade's net_pl and leaves it at its value before the add.
C2_DeleteInvertsAdd ==
    [][/\ \A f \in FlowIds :
            (/\ flows[f].kind = "delete" /\ Finishes(f) /\ flows[f].solo
             /\ lastAdd # << >> /\ lastAdd[1].id = flows[f].id)
                => /\ currentBalance' = flows[f].bal0 - flows[f].pl0
                   /\ currentBalance' = lastAdd[1].bal0
       /\ \A tradeId \in Ids(trades) :
            (/\ confirmDeleteTrade(tradeId) /\ shown'.msg # "none"
             /\ lastAdd # << >> /\ lastAdd[1].id = tradeId)
                => /\ currentBalance' = currentBalance - PLOf(trades, tradeId)
                   /\ currentBalance' = lastAdd[1].bal0
      ]_vars

\* C2 witness: the v2.4 delete of the trade just added, whose net_pl is -50, has
\* reduced the balance and waits for db.delete.
C2_Witness ==
    \E f \in FlowIds :
        /\ flows[f].pc = "del_delete" /\ flows[f].solo /\ flows[f].pl0 = -50
        /\ lastAdd # << >> /\ lastAdd[1].id = flows[f].id
        /\ currentBalance = flows[f].bal0 + 50

\* C3 (as claimed): an edit changes the balance by the net_pl the trade has after it
\* minus the net_pl it had before it; in v2.4 for an edit nothing runs beside, in
\* v3.0 for every updateTrade.
C3_EditIsAdditive ==
    [][/\ \A f \in FlowIds :
            (flows[f].kind = "edit" /\ Finishes(f) /\ flows[f].solo)
                => currentBalance' - flows[f].bal0
                     = PLOf(trades', flows[f].id) - flows[f].pl0
       /\ \A id \in Ids(trades), tradeData \in TradeData :
            updateTrade([tradeData EXCEPT !.id = id])
                => currentBalance' - currentBalance
                     = PLOf(trades', id) - PLOf(trades, id)
      ]_vars

\* C7 (as claimed): submitting the add-trade form of v2.4 or of the merge-ready
\* revision with the date, the ticker or the strategy empty shows an error and changes
\* neither the store, this.trades nor the balance; so does the settings form of v2.4
\* with a starting capital of 0.
C7_ValidationChangesNothing ==
    [][/\ \A form \in AddForms :
            (MissingRequired(FormTrade(form)) /\ handleAddTradeOf(form))
                => /\ shown'.msg = "error"
                   /\ store' = store /\ trades' = trades
                   /\ currentBalance' = currentBalance
       /\ \A form \in MergeForms :
            (MissingRequired(MergeFormTrade(form)) /\ handleAddTrade_merge(form))
                => /\ shown'.msg = "error"
                   /\ store' = store /\ trades' = trades
                   /\ currentBalance' = currentBalance
       /\ \A capital \in CapitalTexts, balance \in BalanceTexts :
            (ParseFloatOr(capital, 0) = 0 /\ handlePortfolioSettingsOf(capital, balance))
                => /\ shown'.msg = "error"
                   /\ startingCapital' = startingCapital
                   /\ currentBalance' = currentBalance
      ]_vars

\* The rows of the preview array that have been added: they have their id.
AddedRows(b) == SelectSeq(b, LAMBDA t : t.id # 0)

\* C8 (as claimed): an import one of whose db.add was rejected still adds every other
\* row to the store and to this.trades, raises the balance by the net_pl of the rows
\* added, and ends with a message that reports the number of skipped rows; in v2.4
\* for an import nothing runs beside, and in the original revision.
C8_ImportSkipsRejectedRows ==
    [][/\ \A f \in FlowIds :
            (/\ flows[f].kind = "import" /\ flows[f].pc = "imp_save" /\ Finishes(f)
             /\ flows[f].solo /\ flows[f].rejected)
                => /\ Ids(AddedRows(batch)) \subseteq (StoreIds \cap Ids(trades'))
                   /\ currentBalance' = flows[f].bal0 + SumPL(AddedRows(batch))
                   /\ shown'.msg = "success"
                   /\ "skipped" \in shown'.reports
       /\ \A mode \in {"append", "replace"}, oks \in [1..Len(batch) -> BOOLEAN] :
            (/\ commitImport_original(mode, TRUE, TRUE, oks)
             /\ \E k \in 1..Len(batch) : ~oks[k])
                => /\ \A k \in 1..Len(batch) :
                         oks[k] => /\ batch'[k].id \in {r.id : r \in store'}
                                   /\ batch'[k].id \in Ids(trades')
                   /\ shown'.msg = "success"
                   /\ "skipped" \in shown'.reports
      ]_vars

C11_PreviewChangesOnlyPreview ==
    [][ /\ handleFileUpload =>
              UNCHANGED << trades, filteredTrades, currentBalance, startingCapital,
                           store, nextId, settingsStore >>
        /\ (commitImport /\ ~(previewData /\ batch # << >>))
              => /\ UNCHANGED << trades, filteredTrades, currentBalance,
                                 startingCapital, store, nextId, settingsStore,
                                 previewData, batch, pending >>
                 /\ shown'.msg = "error" ]_vars

\* C11 witness: a preview has been loaded over a non-empty journal.
C11_Witness ==
    /\ rev = "v2.4"
    /\ shown.kind = "upload"
    /\ shown.msg = "success"
    /\ previewData
    /\ batch # << >>
    /\ trades # << >>

\* C12 (as claimed): in v2.4, after every completed loadAllData, handleAddTrade,
\* handleEditTrade, deleteTrade and commitImport, this.trades is sorted by date,
\* newest first; stated for the runs in which no store write was rejected and
\* no two handlers overlapped.
C12_SortedByDateDesc ==
    (rev = "v2.4" /\ AtRest /\ ~failed /\ ~overlapped) =>
        \A k \in 1..(Len(trades) - 1) : trades[k].date >= trades[k + 1].date

(***************************************************************************)
(* The filters of the trade history, v2.4 and v3.0.                        *)
(***************************************************************************)
MaxTrades == 2

\* The callback of Array.prototype.filter in applyFilters and getFilteredTrades.
PassesFilters(trade, f) ==
    /\ f.ticker = "" \/ trade.ticker = f.ticker
    /\ f.strategy = "" \/ trade.strategy = f.strategy
    /\ f.from = 0 \/ ~(trade.date < f.from)
    /\ f.to = 0 \/ ~(trade.date > f.to)

getFilteredTrades(all, f) == SelectSeq(all, LAMBDA t : PassesFilters(t, f))

\* v2.4: this.filteredTrades is assigned, then updateTradeHistory renders
\* this.filteredTrades and updateDashboard / calculateMetrics reads this.filteredTrades.
applyFilters ==
    /\ rev = "v2.4"
    /\ call.fn = "filters"
    /\ LET filtered == getFilteredTrades(call.arg.trades, call.arg.filters)
       IN  call' = Call("applyFilters", call.arg,
                        [table |-> filtered, metrics |-> filtered])
    /\ UNCHANGED journal

\* v3.0: applyFilters calls displayTrades, which renders getFilteredTrades();
\* the dashboard cards hold calculateMetrics(), which reads allTrades.
applyFilters_v30 ==
    /\ rev = "v3.0"
    /\ call.fn = "filters"
    /\ call' = Call("applyFilters", call.arg,
                    [table |-> getFilteredTrades(call.arg.trades, call.arg.filters),
                     metrics |-> call.arg.trades])
    /\ UNCHANGED journal

\* Every trade list of up to MaxTrades trades (ids in the order of the list) and
\* every value of the four filter controls; "" and day 0 are the empty control.
FilterInit ==
    LET values   == {Trade(0, d, tk, st, 0, 0, 30, "Win", 0) :
                        d \in Dates, tk \in {"SPY", "QQQ"}, st \in {"CSP", "CC"}}
        lists    == {[k \in 1..Len(l) |-> [l[k] EXCEPT !.id = k]] :
                        l \in UNION {[1..m -> values] : m \in 0..MaxTrades}}
        settings == [ticker : {"", "SPY", "QQQ"}, strategy : {"", "CSP"},
                     from : 0..MaxDate, to : 0..MaxDate]
    IN  /\ \E r \in {"v2.4", "v3.0"} : Constructed(r)
        /\ call \in {Call("filters", [trades |-> l, filters |-> f], << >>) :
                        l \in lists, f \in settings}

FilterNext ==
    \/ applyFilters
    \/ applyFilters_v30

FilterSpec == FilterInit /\ [][FilterNext]_vars

\* C13 (as claimed): in v2.4 and v3.0, for every setting of the ticker, strategy,
\* from-date and to-date filters and every trade list, the trades shown in the
\* table are the trades the dashboard metrics are computed over.
C13_TableIsMetricsInput ==
    call.fn = "applyFilters" => call.res.table = call.res.metrics

(***************************************************************************)
(* CSV text.  A text is a sequence of symbols: the comma, the double       *)
(* quote, the space, the line feed, and words (runs of other characters).  *)
(***************************************************************************)
MaxLine == 5

Quote == "\""

\* String.prototype.trim: spaces and line feeds are white space.
RECURSIVE Trim(_)
Trim(s) ==
    IF s = << >> THEN s
    ELSE IF Head(s) \in {" ", "\n"} THEN Trim(Tail(s))
    ELSE IF s[Len(s)] \in {" ", "\n"} THEN Trim(SubSeq(s, 1, Len(s) - 1))
    ELSE s

\* String.prototype.split(sep)
RECURSIVE Split(_, _)
Split(text, sep) ==
    IF \A k \in 1..Len(text) : text[k] # sep THEN << text >>
    ELSE LET k == CHOOSE i \in 1..Len(text) :
                        text[i] = sep /\ \A j \in 1..(i - 1) : text[j] # sep
         IN  << SubSeq(text, 1, k - 1) >> \o Split(SubSeq(text, k + 1, Len(text)), sep)

\* line.split(',').map(v => v.trim()): every comma ends a field.
parseCSVLine_Split(line) ==
    [k \in 1..Len(Split(line, ",")) |-> Trim(Split(line, ",")[k])]

\* The loop of parseCSVLine in v2.1, v2.3 and v2.4: a quote toggles inQuotes and
\* is dropped, a comma outside quotes ends the field, fields are trimmed.
RECURSIVE ScanLine(_, _, _, _)
ScanLine(line, result, current, inQuotes) ==
    IF line = << >> THEN Append(result, Trim(current))
    ELSE LET char == Head(line)
         IN  IF char = Quote
             THEN ScanLine(Tail(line), result, current, ~inQuotes)
             ELSE IF char = "," /\ ~inQuotes
             THEN ScanLine(Tail(line), Append(result, Trim(current)), << >>, inQuotes)
             ELSE ScanLine(Tail(line), result, Append(current, char), inQuotes)

parseCSVLine(line) == ScanLine(line, << >>, << >>, FALSE)

\* The loop of parseCSVLine in v3.0: a doubled quote inside quotes is one quote
\* of the field, and fields are not trimmed.
RECURSIVE ScanLine_v30(_, _, _, _)
ScanLine_v30(line, result, current, inQuotes) ==
    IF line = << >> THEN Append(result, current)
    ELSE LET char == Head(line)
             nextIsQuote == Len(line) >= 2 /\ line[2] = Quote
         IN  IF char = Quote /\ inQuotes /\ nextIsQuote
             THEN ScanLine_v30(Tail(Tail(line)), result, Append(current, Quote), inQuotes)
             ELSE IF char = Quote
             THEN ScanLine_v30(Tail(line), result, current, ~inQuotes)
             ELSE IF char = "," /\ ~inQuotes
             THEN ScanLine_v30(Tail(line), Append(result, current), << >>, inQuotes)
             ELSE ScanLine_v30(Tail(line), result, Append(current, char), inQuotes)

parseCSVLine_v30(line) == ScanLine_v30(line, << >>, << >>, FALSE)

(***************************************************************************)
(* parseCSV of v2.1, v2.3 and v2.4.  Amounts are in hundredths.            *)
(***************************************************************************)
MaxRows == 2

\* Array.prototype.join(sep)
RECURSIVE Join(_, _)
Join(parts, sep) ==
    IF parts = << >> THEN << >>
    ELSE IF Len(parts) = 1 THEN parts[1]
    ELSE parts[1] \o << sep >> \o Join(Tail(parts), sep)

\* h.toLowerCase().replace(/\s+/g, '_'), as one string.
RECURSIVE HeaderKey(_)
HeaderKey(h) ==
    LET toLowerCase(w) ==
            CASE w = "Date"     -> "date"
              [] w = "Ticker"   -> "ticker"
              [] w = "Strategy" -> "strategy"
              [] w = "Quantity" -> "quantity"
              [] w = "Fees"     -> "fees"
              [] w = "Net"      -> "net"
              [] w = "P&L"      -> "p&l"
              [] w = "PL"       -> "pl"
              [] w = "Outcome"  -> "outcome"
              [] w = "Trade"    -> "trade"
              [] w = "Notes"    -> "notes"
              [] OTHER          -> w
    IN  IF h = << >> THEN ""
        ELSE IF Head(h) = " "
             THEN IF Len(h) >= 2 /\ h[2] = " "
                  THEN HeaderKey(Tail(h))
                  ELSE "_" \o HeaderKey(Tail(h))
             ELSE toLowerCase(Head(h)) \o HeaderKey(Tail(h))

\* trade[header] = values[index] || '' for every header, padded values; a later
\* column of the same name overwrites an earlier one.
RowObject(headers, values) ==
    [h \in Range(headers) |->
        LET index == CHOOSE k \in 1..Len(headers) :
                        headers[k] = h /\ \A j \in (k + 1)..Len(headers) : headers[j] # h
        IN  IF index <= Len(values) THEN values[index] ELSE << >>]

\* trade.key, with undefined read as the empty text (both are falsy).
Get(trade, key) == IF key \in DOMAIN trade THEN trade[key] ELSE << >>

\* a || b on texts
Or(a, b) == IF a # << >> THEN a ELSE b

\* parseFloat of a numeric text, in hundredths; parseInt of a numeric text.
parseFloat(text) ==
    IF Head(text) = "-0.65" THEN -65 ELSE 100 * NumberOf(Head(text))

parseInt(text) ==
    CASE Head(text) = "1" -> 1
      [] OTHER            -> NumberOf(Head(text))

\* A variant of the validation that requires the date only.
IsValidRow_DateOnly(trade) == Get(trade, "date") # << >>

\* The validation of a row: !trade.date || !trade.ticker skips it.
IsValidRow(trade) == Get(trade, "date") # << >> /\ Get(trade, "ticker") # << >>

\* A variant of the clean-up that keeps the values of the file.
NormalisedTrade_AsRead(trade) ==
    [date        |-> Get(trade, "date"),
     ticker      |-> Get(trade, "ticker"),
     strategy    |-> Get(trade, "strategy"),
     quantity    |-> parseInt(Or(Get(trade, "quantity"), << "0" >>)),
     fees        |-> parseFloat(Or(Get(trade, "fees"), << "0" >>)),
     net_pl      |-> parseFloat(Or(Get(trade, "net_pl"), << "0" >>)),
     outcome     |-> Get(trade, "outcome"),
     trade_notes |-> Get(trade, "trade_notes")]

\* The numeric parsing and the clean-up of an accepted row.
NormalisedTrade(trade) ==
    LET net_pl == parseFloat(Or(Or(Get(trade, "net_pl"), Get(trade, "net_p_l")), << "0" >>))
    IN  [date        |-> Get(trade, "date"),
         ticker      |-> [k \in 1..Len(Get(trade, "ticker")) |->
                            ToUpperCase(Get(trade, "ticker")[k])],
         strategy    |-> Or(Get(trade, "strategy"), << "Unknown" >>),
         quantity    |-> parseInt(Or(Get(trade, "quantity"), << "1" >>)),
         fees        |-> parseFloat(Or(Get(trade, "fees"), << "-0.65" >>)),
         net_pl      |-> net_pl,
         outcome     |-> Or(Get(trade, "outcome"), << Outcome(net_pl) >>),
         trade_notes |-> Get(trade, "trade_notes")]

\* parseCSV: the rows pushed to the local trades array, the skipped counter, and
\* whether an error is shown instead of assigning this.previewData.
parseCSV(csvContent) ==
    LET split == Split(csvContent, "\n")
        lines == SelectSeq([k \in 1..Len(split) |-> Trim(split[k])],
                           LAMBDA line : line # << >>)
    IN  IF Len(lines) < 2
        THEN [error |-> TRUE, trades |-> << >>, skipped |-> 0]
        ELSE LET parsed  == parseCSVLine(lines[1])
                 headers == [k \in 1..Len(parsed) |-> HeaderKey(parsed[k])]
                 rows    == [k \in 1..(Len(lines) - 1) |->
                                RowObject(headers, parseCSVLine(lines[k + 1]))]
                 valid   == SelectSeq(rows, IsValidRow)
             IN  [error   |-> valid = << >>,
                  trades  |-> [k \in 1..Len(valid) |-> NormalisedTrade(valid[k])],
                  skipped |-> Len(rows) - Len(valid)]

(***************************************************************************)
(* The export routines, and the import of v3.0.                            *)
(***************************************************************************)
\* trade[key] || '' as text; a number 0 is falsy.
\* String(n) is the text JavaScript writes for a number when an array is joined.
Value(trade, key) ==
    LET String(n) == CASE n = -5000 -> "-50"
                       [] n = 3000  -> "30"
                       [] n = -65   -> "-0.65"
                       [] n = 1     -> "1"
                       [] OTHER     -> "0"
    IN  IF key \in {"quantity", "fees", "net_pl"}
        THEN IF trade[key] = 0 THEN << >> ELSE << String(trade[key]) >>
        ELSE trade[key]

\* value.replace(/"/g, '""') between two double quotes.
RECURSIVE DoubleQuotes(_)
DoubleQuotes(text) ==
    IF text = << >> THEN << >>
    ELSE (IF Head(text) = Quote THEN << Quote, Quote >> ELSE << Head(text) >>)
            \o DoubleQuotes(Tail(text))

Quoted(text) == << Quote >> \o DoubleQuotes(text) \o << Quote >>

\* exportToCSV of v2.4: only the notes columns are quoted; premium, fees and
\* net_pl are written as 0 when falsy.
exportToCSV(list) ==
    LET headers == << <<"Date">>, <<"Ticker">>, <<"Strategy">>, <<"Quantity">>, <<"Fees">>,
                      <<"Net", " ", "P&L">>, <<"Outcome">>, <<"Trade", " ", "Notes">> >>
        row(trade) == << Value(trade, "date"), Value(trade, "ticker"),
                         Value(trade, "strategy"), Value(trade, "quantity"),
                         Or(Value(trade, "fees"), << "0" >>),
                         Or(Value(trade, "net_pl"), << "0" >>),
                         Value(trade, "outcome"), Quoted(Value(trade, "trade_notes")) >>
        rows == << Join(headers, ",") >> \o [k \in 1..Len(list) |-> Join(row(list[k]), ",")]
    IN  [rows |-> rows, csv |-> Join(rows, "\n") \o << "\n" >>]

ExportKeys ==
    << "date", "ticker", "strategy", "quantity", "fees", "net_pl", "outcome", "trade_notes" >>

\* exportToCSV of v3.0 (quoteAt: comma, quote, line feed) and exportCSV of the
\* original (quoteAt: comma): a string value holding one of quoteAt is quoted.
ExportWithQuoting(headers, list, quoteAt) ==
    LET cell(trade, key) ==
            IF key \notin {"quantity", "fees", "net_pl"}
               /\ \E k \in 1..Len(trade[key]) : trade[key][k] \in quoteAt
            THEN Quoted(trade[key])
            ELSE Value(trade, key)
        row(trade) == [k \in 1..Len(ExportKeys) |-> cell(trade, ExportKeys[k])]
    IN  << Join(headers, ",") >>
           \o [k \in 1..Len(list) |-> Join(row(list[k]), ",")]

exportToCSV_v30(list) ==
    LET rows == ExportWithQuoting([k \in 1..Len(ExportKeys) |-> << ExportKeys[k] >>],
                                  list, {",", Quote, "\n"})
    IN  [rows |-> rows, csv |-> Join(rows, "\n") \o << "\n" >>]

\* The original's headers are 'Date', 'Ticker', ... and are lower-cased to read
\* the trade; its text has no final line feed.
exportCSV(list) ==
    LET rows == ExportWithQuoting(<< <<"Date">>, <<"Ticker">>, <<"Strategy">>,
                                     <<"Quantity">>, <<"Fees">>, <<"Net_PL">>,
                                     <<"Outcome">>, <<"Trade_Notes">> >>, list, {","})
    IN  [rows |-> rows, csv |-> Join(rows, "\n")]

\* this.trades.sort((a, b) => new Date(b.date) - new Date(a.date)) on date texts.
RECURSIVE SortByNewDate(_)
SortByNewDate(list) ==
    IF list = << >> THEN << >>
    ELSE LET NewDate(text) == CASE text = <<"2024-01-01">> -> 1
                                [] text = <<"2024-01-02">> -> 2
                                [] OTHER                   -> 0
             sorted == SortByNewDate(SubSeq(list, 1, Len(list) - 1))
             t      == list[Len(list)]
         IN  SelectSeq(sorted, LAMBDA u : NewDate(u.date) >= NewDate(t.date))
                \o << t >>
                \o SelectSeq(sorted, LAMBDA u : NewDate(u.date) < NewDate(t.date))

\* parseCSV of v3.0: the header names are kept as written, blank lines are
\* passed over, and every other line is a row.
parseCSV_v30(csvText) ==
    LET lines   == Split(Trim(csvText), "\n")
        headers == [k \in 1..Len(parseCSVLine_v30(lines[1])) |->
                        HeaderKey(parseCSVLine_v30(lines[1])[k])]
        data    == SelectSeq(Tail(lines), LAMBDA line : Trim(line) # << >>)
    IN  [k \in 1..Len(data) |-> RowObject(headers, parseCSVLine_v30(data[k]))]

\* importCSV of v3.0: the trade object built from a row.
ImportedTrade(row) ==
    LET number(text, d) == IF text = << >> \/ parseFloat(text) = 0 THEN d
                           ELSE parseFloat(text)
    IN  [date        |-> Get(row, "date"),
         ticker      |-> [k \in 1..Len(Get(row, "ticker")) |->
                            ToUpperCase(Get(row, "ticker")[k])],
         strategy    |-> Get(row, "strategy"),
         quantity    |-> IF Get(row, "quantity") = << >> \/ parseInt(Get(row, "quantity")) = 0
                         THEN 1 ELSE parseInt(Get(row, "quantity")),
         fees        |-> number(Get(row, "fees"), 0),
         net_pl      |-> number(Get(row, "net_pl"), 0),
         outcome     |-> Or(Get(row, "outcome"), << "Win" >>),
         trade_notes |-> Get(row, "trade_notes")]

\* importCSV of v3.0 into an empty journal: every row with a date, a ticker and
\* a strategy is added by addTrade, which puts it at the front of allTrades.
RECURSIVE importCSV(_, _)
importCSV(data, allTrades) ==
    IF data = << >> THEN allTrades
    ELSE LET tradeData == ImportedTrade(Head(data))
         IN  IF tradeData.date # << >> /\ tradeData.ticker # << >>
                /\ tradeData.strategy # << >>
             THEN importCSV(Tail(data), << tradeData >> \o allTrades)
             ELSE importCSV(Tail(data), allTrades)

\* The inputs of the CSV routines.  Lines: every line of up to MaxLine symbols.
\* Files: a header row, with the position of each column the parser reads (0:
\* the file has no such column), and 1..MaxRows data rows of six values or of a
\* date alone.  Journals: up to MaxTrades trades, texts as symbols, amounts in
\* hundredths.
CsvInit ==
    LET lines   == UNION {[1..n -> {"a", ",", Quote, " "}] : n \in 0..MaxLine}
        headers ==
            { [cols |-> << <<"date">>, <<"ticker">>, <<"net_pl">>, <<"fees">>,
                           <<"quantity">>, <<"outcome">> >>,
               date |-> 1, ticker |-> 2, net_pl |-> 3, fees |-> 4, quantity |-> 5,
               outcome |-> 6],
              [cols |-> << <<"Date">>, <<"Ticker">>, <<"Net", " ", "PL">> >>,
               date |-> 1, ticker |-> 2, net_pl |-> 3, fees |-> 0, quantity |-> 0,
               outcome |-> 0],
              [cols |-> << <<"Date">>, <<"net_pl">> >>,
               date |-> 1, ticker |-> 0, net_pl |-> 2, fees |-> 0, quantity |-> 0,
               outcome |-> 0] }
        rows    ==
            { << d, tk, pl, fees, q, o >> :
                d \in {<< >>, <<"2024-01-02">>}, tk \in {<< >>, <<"spy">>, <<" ">>},
                pl \in {<<"-50">>, <<"30">>}, fees \in {<< >>, <<"-1">>},
                q \in {<< >>, <<"10">>}, o \in {<< >>, <<"Win">>} }
            \cup { << <<"2024-01-02">> >> }
        files   == [header : headers, rows : UNION {[1..n -> rows] : n \in 1..MaxRows}]
        trade   ==
            { [date |-> d, ticker |-> tk, strategy |-> << "CSP" >>, quantity |-> 1,
               fees |-> f, net_pl |-> pl, outcome |-> << Outcome(pl) >>,
               trade_notes |-> n] :
                d \in {<<"2024-01-01">>, <<"2024-01-02">>},
                tk \in {<<"SPY">>, <<"A", ",", "B">>},
                f \in {0, -65}, pl \in {-5000, 3000},
                n \in {<< >>, <<"a", ",", "b">>, <<"say", " ", Quote, "hi", Quote>>,
                       <<"a", "\n", "b">>} }
    IN  /\ Constructed("v2.4")
        /\ call \in {Call("line", l, << >>) : l \in lines}
                   \cup {Call("file", f, << >>) : f \in files}
                   \cup {Call("trades", l, << >>) :
                            l \in UNION {[1..n -> trade] : n \in 0..MaxTrades}}

\* One line is tokenised by the parseCSVLine of v2.1, v2.3 and v2.4, or of v3.0.
TokeniseLine ==
    /\ call.fn = "line"
    /\ call' = Call("parseCSVLine", call.arg, parseCSVLine(call.arg))
    /\ UNCHANGED journal

TokeniseLine_v30 ==
    /\ call.fn = "line"
    /\ call' = Call("parseCSVLine", call.arg, parseCSVLine_v30(call.arg))
    /\ UNCHANGED journal

\* handleFileUpload reads the file (fields joined by commas, lines by line
\* feeds) and parseCSV parses its text.
ParseFile ==
    /\ call.fn = "file"
    /\ LET file == call.arg
           text == Join(<< Join(file.header.cols, ",") >>
                           \o [k \in 1..Len(file.rows) |-> Join(file.rows[k], ",")],
                        "\n")
       IN  call' = Call("parseCSV", file, parseCSV(text))
    /\ UNCHANGED journal

\* The journal is exported by one of the three export routines.
Export ==
    /\ call.fn = "trades"
    /\ call.arg # << >>
    /\ \E routine \in {"v2.4", "v3.0", "original"} :
          call' = Call("export", call.arg,
                       [routine |-> routine,
                        rows    |-> CASE routine = "v2.4" -> exportToCSV(call.arg).rows
                                      [] routine = "v3.0" -> exportToCSV_v30(call.arg).rows
                                      [] OTHER            -> exportCSV(call.arg).rows])
    /\ UNCHANGED journal

\* v2.4: the journal is exported, the file is parsed, and commitImport in
\* replace mode makes the sorted batch the trade list (no write is rejected).
RoundTrip ==
    /\ call.fn = "trades"
    /\ call.arg # << >>
    /\ call' = Call("roundTrip", call.arg,
                    [routine |-> "v2.4",
                     trades  |-> SortByNewDate(parseCSV(exportToCSV(call.arg).csv).trades)])
    /\ UNCHANGED journal

\* v3.0: the journal is exported, the file is parsed, and importCSV adds the
\* rows to an empty journal.
RoundTrip_v30 ==
    /\ call.fn = "trades"
    /\ call.arg # << >>
    /\ call' = Call("roundTrip", call.arg,
                    [routine |-> "v3.0",
                     trades  |-> importCSV(parseCSV_v30(exportToCSV_v30(call.arg).csv),
                                           << >>)])
    /\ UNCHANGED journal

CsvNext ==
    \/ TokeniseLine
    \/ TokeniseLine_v30
    \/ ParseFile
    \/ Export
    \/ RoundTrip
    \/ RoundTrip_v30

CsvSpec == CsvInit /\ [][CsvNext]_vars

\* The positions of a text that hold the symbol c.
Positions(text, c) == {k \in 1..Len(text) : text[k] = c}

\* The commas of a line that are preceded by an even number of double quotes.
CommasOutsideQuotes(line) ==
    {k \in Positions(line, ",") :
        Cardinality({j \in Positions(line, Quote) : j < k}) % 2 = 0}

\* C16: parseCSVLine of v2.1, v2.3, v2.4 and v3.0 returns one field more than the
\* line has commas outside double quotes, and every comma inside a quoted
\* section is a character of a returned field.
C16_SplitsOutsideQuotes ==
    call.fn = "parseCSVLine" =>
        /\ Len(call.res) = 1 + Cardinality(CommasOutsideQuotes(call.arg))
        /\ Cardinality({p \in (1..Len(call.res)) \X (1..MaxLine) :
                            p[2] \in Positions(call.res[p[1]], ",")})
              = Cardinality(Positions(call.arg, ",") \ CommasOutsideQuotes(call.arg))

\* C16 witness: a line with a comma inside quotes and a comma outside has been
\* split into two fields, the first holding the quoted comma.
C16_Witness ==
    /\ call.fn = "parseCSVLine"
    /\ call.arg = << Quote, ",", Quote, ",", "a" >>
    /\ call.res = << << "," >>, << "a" >> >>

\* The value a data row of a file has in a column (empty when it has none).
RowValue(row, col) == IF col = 0 \/ col > Len(row) THEN << >> ELSE Trim(row[col])

\* The data rows of a file that have a date and a ticker.
HasBoth(file) ==
    SelectSeq(file.rows, LAMBDA row :
        RowValue(row, file.header.date) # << >> /\ RowValue(row, file.header.ticker) # << >>)

\* C15: parseCSV of v2.1, v2.3 and v2.4 puts in the batch exactly the data rows
\* that have a date and a ticker, in their order; every other row adds one to
\* the skipped counter and the rows after it are still parsed.
C15_RowsWithoutDateOrTickerSkipped ==
    call.fn = "parseCSV" =>
        LET kept == HasBoth(call.arg)
        IN  /\ Len(call.res.trades) = Len(kept)
            /\ call.res.skipped = Len(call.arg.rows) - Len(kept)
            /\ \A k \in 1..Len(kept) :
                  /\ call.res.trades[k].date = RowValue(kept[k], call.arg.header.date)
                  /\ call.res.trades[k].net_pl =
                        parseFloat(RowValue(kept[k], call.arg.header.net_pl))

\* C15 witness: a file whose first row has no ticker and whose second row is
\* complete has been parsed: one trade in the batch, one row skipped.
C15_Witness ==
    /\ call.fn = "parseCSV"
    /\ Len(call.arg.rows) = 2
    /\ RowValue(call.arg.rows[1], call.arg.header.ticker) = << >>
    /\ HasBoth(call.arg) = << call.arg.rows[2] >>
    /\ Len(call.res.trades) = 1
    /\ call.res.skipped = 1

\* C17: for every row parseCSV of v2.4 accepts, an empty or absent fees value
\* becomes -0.65, an empty or absent quantity becomes 1, an empty or absent
\* outcome becomes 'Win' when net_pl >= 0 and 'Loss' otherwise, and the ticker
\* is stored upper-cased.
C17_ImportNormalisation ==
    call.fn = "parseCSV" =>
        LET kept   == HasBoth(call.arg)
            header == call.arg.header
        IN  \A k \in 1..Len(kept) :
              LET trade == call.res.trades[k]
              IN  /\ RowValue(kept[k], header.fees) = << >> => trade.fees = -65
                  /\ RowValue(kept[k], header.quantity) = << >> => trade.quantity = 1
                  /\ RowValue(kept[k], header.outcome) = << >> =>
                        trade.outcome = IF trade.net_pl >= 0 THEN << "Win" >> ELSE << "Loss" >>
                  /\ RowValue(kept[k], header.ticker) = << "spy" >> =>
                        trade.ticker = << "SPY" >>

\* C17 witness: a row with a lower-case ticker, a negative net_pl and no fees,
\* quantity or outcome has been accepted and normalised.
C17_Witness ==
    /\ call.fn = "parseCSV"
    /\ call.arg.rows = << << <<"2024-01-02">>, <<"spy">>, <<"-50">>, << >>, << >>, << >> >> >>
    /\ call.arg.header.fees = 4
    /\ Len(call.res.trades) = 1
    /\ call.res.trades[1].fees = -65
    /\ call.res.trades[1].quantity = 1
    /\ call.res.trades[1].outcome = << "Loss" >>
    /\ call.res.trades[1].ticker = << "SPY" >>

\* C14 (as claimed): in v2.4 and v3.0, exporting the trades and importing the
\* exported text again gives the same trades in every exported field (their
\* order in the list left aside).
C14_RoundTrip ==
    call.fn = "roundTrip" =>
        /\ Len(call.res.trades) = Len(call.arg)
        /\ Range(call.res.trades) = Range(call.arg)

\* C18 (as claimed): in the export of v2.4, of v3.0 and of the original, every
\* row has as many top-level columns as the header row, and a reader that
\* honours quoting gets back every value that holds a comma or a double quote.
C18_ExportQuoting ==
    call.fn = "export" =>
        \A k \in 1..Len(call.arg) :
            LET row == call.res.rows[k + 1]
            IN  /\ Cardinality(CommasOutsideQuotes(row))
                      = Cardinality(CommasOutsideQuotes(call.res.rows[1]))
                /\ Len(parseCSVLine_v30(row)) = Len(ExportKeys)
                      => /\ parseCSVLine_v30(row)[2] = call.arg[k].ticker
                         /\ parseCSVLine_v30(row)[8] = call.arg[k].trade_notes

(***************************************************************************)
(* calculateMetrics of v2.4, merge-ready and v3.0.  A JavaScript number is *)
(* NaN, an infinity, or the fraction num / den with den > 0.               *)
(***************************************************************************)
MaxList == 3

Num(n) == [kind |-> "finite", num |-> n, den |-> 1]

\* a / b
Div(a, b) ==
    IF b = 0
    THEN [kind |-> IF a = 0 THEN "NaN" ELSE IF a > 0 THEN "Infinity" ELSE "-Infinity",
          num |-> 0, den |-> 1]
    ELSE [kind |-> "finite", num |-> IF b > 0 THEN a ELSE -a,
          den |-> IF b > 0 THEN b ELSE -b]

\* Math.abs
Abs(n) == IF n < 0 THEN -n ELSE n

\* A variant of the total that adds the winning trades only.
TotalPL_Wins(list) == SumPL(SelectSeq(list, LAMBDA t : t.net_pl >= 0))

\* trades.reduce((sum, t) => sum + (t.net_pl || 0), 0)
TotalPL(list) == SumPL(list)

\* The metrics object of v2.4 and merge-ready, given the wins and the losses.
MetricsOf(list, wins, losses) ==
    IF list = << >>
    THEN [totalTrades |-> 0, totalPL |-> 0, winRate |-> Num(0), totalWins |-> 0,
          totalLosses |-> 0, averageWin |-> Num(0), averageLoss |-> Num(0),
          largestWin |-> 0, largestLoss |-> 0, profitFactor |-> Num(0)]
    ELSE [totalTrades  |-> Len(list),
          totalPL      |-> TotalPL(list),
          winRate      |-> Div(Len(wins), Len(list)),
          totalWins    |-> Len(wins),
          totalLosses  |-> Len(losses),
          averageWin   |-> IF Len(wins) > 0 THEN Div(SumPL(wins), Len(wins)) ELSE Num(0),
          averageLoss  |-> IF Len(losses) > 0 THEN Div(SumPL(losses), Len(losses))
                           ELSE Num(0),
          largestWin   |-> CHOOSE m \in {list[k].net_pl : k \in 1..Len(list)} :
                              \A k \in 1..Len(list) : list[k].net_pl <= m,
          largestLoss  |-> CHOOSE m \in {list[k].net_pl : k \in 1..Len(list)} :
                              \A k \in 1..Len(list) : list[k].net_pl >= m,
          profitFactor |-> IF Len(losses) > 0
                           THEN Div(SumPL(wins), Abs(SumPL(losses)))
                           ELSE IF Len(wins) > 0 THEN Num(999) ELSE Num(0)]

\* v2.4: wins and losses by the sign of net_pl.
calculateMetrics(list) ==
    MetricsOf(list, SelectSeq(list, LAMBDA t : t.net_pl >= 0),
                    SelectSeq(list, LAMBDA t : t.net_pl < 0))

\* merge-ready: wins and losses by the stored outcome.
calculateMetrics_merge(list) ==
    MetricsOf(list, SelectSeq(list, LAMBDA t : t.outcome = "Win"),
                    SelectSeq(list, LAMBDA t : t.outcome = "Loss"))

\* v3.0: wins and losses by the stored outcome, the division guarded by
\* grossLosses > 0.
calculateMetrics_v30(allTrades) ==
    IF allTrades = << >>
    THEN [totalPL |-> 0, winRate |-> Num(0), totalTrades |-> 0, avgWin |-> Num(0),
          avgLoss |-> Num(0), profitFactor |-> Num(0)]
    ELSE LET wins        == SelectSeq(allTrades, LAMBDA t : t.outcome = "Win")
             losses      == SelectSeq(allTrades, LAMBDA t : t.outcome = "Loss")
             grossWins   == SumPL(wins)
             grossLosses == Abs(SumPL(losses))
         IN  [totalPL      |-> SumPL(allTrades),
              winRate      |-> Div(Len(wins) * 100, Len(allTrades)),
              totalTrades  |-> Len(allTrades),
              avgWin       |-> IF Len(wins) > 0 THEN Div(grossWins, Len(wins)) ELSE Num(0),
              avgLoss      |-> IF Len(losses) > 0 THEN Div(grossLosses, Len(losses))
                               ELSE Num(0),
              profitFactor |-> IF grossLosses > 0 THEN Div(grossWins, grossLosses)
                               ELSE IF grossWins > 0 THEN Num(999) ELSE Num(0)]

\* Trade lists as add, edit and import leave them: an imported row keeps the
\* outcome written in the file, whatever its net_pl.
MetricsInit ==
    LET values == [net_pl : {-50, 0, 30}, outcome : {"Win", "Loss"}]
    IN  /\ \E r \in {"v2.4", "merge-ready", "v3.0"} : Constructed(r)
        /\ call \in {Call("list", l, << >>) :
                        l \in UNION {[1..n -> values] : n \in 0..MaxList}}

\* updateDashboard computes the metrics of the list.
updateDashboard ==
    /\ rev = "v2.4"
    /\ call.fn = "list"
    /\ call' = Call("calculateMetrics", call.arg, calculateMetrics(call.arg))
    /\ UNCHANGED journal

updateDashboard_merge ==
    /\ rev = "merge-ready"
    /\ call.fn = "list"
    /\ call' = Call("calculateMetrics", call.arg, calculateMetrics_merge(call.arg))
    /\ UNCHANGED journal

updateDashboard_v30 ==
    /\ rev = "v3.0"
    /\ call.fn = "list"
    /\ call' = Call("calculateMetrics", call.arg, calculateMetrics_v30(call.arg))
    /\ UNCHANGED journal

MetricsNext ==
    \/ updateDashboard
    \/ updateDashboard_merge
    \/ updateDashboard_v30

MetricsSpec == MetricsInit /\ [][MetricsNext]_vars

\* C19 (as claimed): in merge-ready, v2.4 and v3.0, profitFactor is a finite
\* number that is not negative, and when the net_pl of the losing trades sums
\* to zero it is 999 if there are winning trades and 0 otherwise.
C19_ProfitFactorFinite ==
    call.fn = "calculateMetrics" =>
        LET losers  == SelectSeq(call.arg, LAMBDA t :
                          IF rev = "v2.4" THEN t.net_pl < 0 ELSE t.outcome = "Loss")
            winners == SelectSeq(call.arg, LAMBDA t :
                          IF rev = "v2.4" THEN t.net_pl >= 0 ELSE t.outcome = "Win")
        IN  /\ call.res.profitFactor.kind = "finite"
            /\ call.res.profitFactor.num >= 0
            /\ SumPL(losers) = 0 =>
                  call.res.profitFactor = IF winners # << >> THEN Num(999) ELSE Num(0)

\* C20: in v2.4 and merge-ready, totalPL is the sum of net_pl over the list,
\* winRate is between 0 and 1, and for the empty list every metric is 0.
C20_TotalAndWinRate ==
    (call.fn = "calculateMetrics" /\ rev \in {"v2.4", "merge-ready"}) =>
        LET m == call.res
        IN  /\ m.totalPL = SumPL(call.arg)
            /\ m.winRate.kind = "finite"
            /\ 0 <= m.winRate.num /\ m.winRate.num <= m.winRate.den
            /\ call.arg = << >> =>
                  /\ \A f \in {"totalTrades", "totalPL", "totalWins", "totalLosses",
                                "largestWin", "largestLoss"} : m[f] = 0
                  /\ \A f \in {"winRate", "averageWin", "averageLoss", "profitFactor"} :
                        m[f] = Num(0)

\* C20 witness: the metrics of a list with a loss of 50 and a gain of 30 have
\* been computed in v2.4: the total is -20 and one trade in two is a win.
C20_Witness ==
    /\ call.fn = "calculateMetrics"
    /\ rev = "v2.4"
    /\ Len(call.arg) = 2
    /\ call.arg[1].net_pl = -50
    /\ call.arg[2].net_pl = 30
    /\ call.res.totalPL = -20
    /\ call.res.winRate = Div(1, 2)

\* C21 (as claimed): in v2.4, a trade that an import stores is counted in
\* totalWins by calculateMetrics if and only if its stored outcome is 'Win',
\* and its stored outcome is 'Win' exactly when its net_pl >= 0.
C21_OneWinRule ==
    call.fn = "parseCSV" =>
        \A k \in 1..Len(call.res.trades) :
            LET trade == call.res.trades[k]
            IN  /\ (calculateMetrics(<< trade >>).totalWins = 1)
                      <=> (trade.outcome = << "Win" >>)
                /\ (trade.outcome = << "Win" >>) <=> (trade.net_pl >= 0)

(***************************************************************************)
(* The add-trade form with its price fields, submitted in v2.4 and in the  *)
(* merge-ready revision.                                                   *)
(***************************************************************************)
\* The page is constructed and a filled form (call.arg) waits to be submitted.
AddInit ==
    LET forms == {MergeForm(1, "spy", "CSP", pr[1], pr[2], q, p, x) :
                     pr \in {<<"", "">>, <<"10", "12">>, <<"100", "110">>, <<"100", "">>},
                     q \in {"", "2"}, p \in {"", "0", "30"}, x \in {"", "-1"}}
    IN  /\ \E r \in {"v2.4", "merge-ready"} : Constructed(r)
        /\ \E form \in forms : call = Call("form", form, << >>)

AddNext ==
    \/ init
    \/ handleAddTradeOf(call.arg)
    \/ handleAddTrade_add
    \/ handleAddTrade_save
    \/ init_merge
    \/ handleAddTrade_merge(call.arg)

AddSpec == AddInit /\ [][AddNext]_vars

\* C22 (as claimed): in the add-trade handler of the merge-ready and the v2.4
\* revisions, a trade entered with both prices is stored with
\* net_pl = (exit_price - entry_price) * quantity + premium + fees and the outcome of
\* its sign; entry 100, exit 110, quantity 2, premium 0, fees -1 is stored with
\* net_pl 19 and outcome 'Win'.
C22_NetPLFromPrices ==
    LET form     == call.arg
        entry    == NumberOf(form.entry)
        exit     == NumberOf(form.exit)
        quantity == IF form.quantity = "" THEN 1 ELSE NumberOf(form.quantity)
        expected == ((exit - entry) * quantity) + NumberOf(form.premium)
                        + NumberOf(form.fees)
    IN  (call.fn = "form" /\ form.entry # "" /\ form.exit # "") =>
            \A t \in store :
                /\ t.net_pl = expected
                /\ t.outcome = Outcome(expected)
                /\ (form = MergeForm(1, "spy", "CSP", "100", "110", "2", "0", "-1")
                        => t.net_pl = 19 /\ t.outcome = "Win")

(***************************************************************************)
(* calculatePortfolioMetrics of the merge-ready revision, over the         *)
(* balances of this.portfolioHistory.  The Sharpe ratio and the figures it *)
(* is derived from (avgDailyReturn, stdDeviation) are left out; divisors   *)
(* is not a field of the program's object: it collects the denominators of *)
(* the divisions that were carried out.                                    *)
(***************************************************************************)
MaxHistory == 4

\* Math.max of two numbers.
MathMax(a, b) ==
    CASE a.kind = "NaN" \/ b.kind = "NaN"           -> [a EXCEPT !.kind = "NaN"]
      [] a.kind = "Infinity" \/ b.kind = "Infinity" -> [a EXCEPT !.kind = "Infinity"]
      [] a.kind = "-Infinity"                       -> b
      [] b.kind = "-Infinity"                       -> a
      [] OTHER -> IF a.num * b.den >= b.num * a.den THEN a ELSE b

\* A variant in which the peak never rises.
PeakAfter_Start(peak, balance) == peak

\* if (balance > peak) peak = balance
PeakAfter(peak, balance) == IF balance > peak THEN balance ELSE peak

\* The body of portfolioHistory.forEach, applied to the balances in order.
RECURSIVE ScanHistory(_, _)
ScanHistory(history, m) ==
    IF history = << >>
    THEN m
    ELSE LET balance  == Head(history)
             peak     == PeakAfter(m.peak, balance)
             drawdown == Div(peak - balance, peak)
         IN  ScanHistory(Tail(history),
                         [peak        |-> peak,
                          maxBalance  |-> IF balance > m.maxBalance THEN balance
                                          ELSE m.maxBalance,
                          minBalance  |-> IF balance < m.minBalance THEN balance
                                          ELSE m.minBalance,
                          maxDrawdown |-> MathMax(m.maxDrawdown, drawdown),
                          divisors    |-> m.divisors \cup {peak}])

calculatePortfolioMetrics(capital, balance, history) ==
    LET totalReturn  == balance - capital
        scan         == ScanHistory(history,
                                    [peak |-> capital, maxBalance |-> capital,
                                     minBalance |-> capital, maxDrawdown |-> Num(0),
                                     divisors |-> {}])
        dailyReturns == [i \in 1..(Len(history) - 1) |->
                            IF history[i] > 0
                            THEN Div(history[i + 1] - history[i], history[i])
                            ELSE Num(0)]
    IN  [startingCapital  |-> capital,
         currentBalance   |-> balance,
         totalReturn      |-> totalReturn,
         returnPercentage |-> IF capital > 0 THEN Div(totalReturn, capital) ELSE Num(0),
         maxDrawdown      |-> scan.maxDrawdown,
         maxBalance       |-> scan.maxBalance,
         minBalance       |-> scan.minBalance,
         dailyReturns     |-> dailyReturns,
         tradingDays      |-> Len(history),
         divisors         |-> scan.divisors
                                \cup (IF capital > 0 THEN {capital} ELSE {})
                                \cup {history[i] : i \in {j \in 1..(Len(history) - 1) :
                                                             history[j] > 0}}]

\* The merge-ready page with a starting capital, a balance and a balance history.
PortfolioInit ==
    LET balances == {-50, 0, 90, 100, 120, 130}
    IN  /\ Constructed("merge-ready")
        /\ call \in {Call("portfolio", [startingCapital |-> c, currentBalance |-> b,
                                        history |-> h], << >>) :
                        c \in {0, 100}, b \in {0, 120},
                        h \in UNION {[1..n -> balances] : n \in 0..MaxHistory}}

\* updateDashboard computes the portfolio metrics.
updatePortfolio ==
    /\ rev = "merge-ready"
    /\ call.fn = "portfolio"
    /\ call' = Call("calculatePortfolioMetrics", call.arg,
                    calculatePortfolioMetrics(call.arg.startingCapital,
                                              call.arg.currentBalance, call.arg.history))
    /\ UNCHANGED journal

PortfolioSpec == PortfolioInit /\ [][updatePortfolio]_vars

\* C23: in the merge-ready revision, maxDrawdown is the maximum over the balance
\* history of (peak - balance) / peak, peak being the largest of startingCapital and
\* the balances up to that entry (0 for an empty history); for startingCapital 100
\* and the history [100, 120, 90, 130] it is 0.25.
C23_MaxDrawdown ==
    call.fn = "calculatePortfolioMetrics" =>
        LET h        == call.arg.history
            Peak(k)  == CHOOSE p \in {call.arg.startingCapital} \cup {h[j] : j \in 1..k} :
                            /\ p >= call.arg.startingCapital
                            /\ \A j \in 1..k : p >= h[j]
            Draw(k)  == Div(Peak(k) - h[k], Peak(k))
            kinds    == {Draw(k).kind : k \in 1..Len(h)}
            m        == call.res.maxDrawdown
        IN  /\ h = << >> => m = Num(0)
            /\ "NaN" \in kinds => m.kind = "NaN"
            /\ ("NaN" \notin kinds /\ "Infinity" \in kinds) => m.kind = "Infinity"
            /\ (h # << >> /\ kinds = {"finite"}) =>
                  /\ m.kind = "finite"
                  /\ \E k \in 1..Len(h) : m.num * Draw(k).den = Draw(k).num * m.den
                  /\ \A k \in 1..Len(h) : m.num * Draw(k).den >= Draw(k).num * m.den
            /\ (call.arg.startingCapital = 100 /\ h = << 100, 120, 90, 130 >>) =>
                  m.kind = "finite" /\ m.num * 4 = m.den

\* The metrics of startingCapital 100 and the history [100, 120, 90, 130] are computed.
C23_Witness ==
    /\ call.fn = "calculatePortfolioMetrics"
    /\ call.arg.startingCapital = 100
    /\ call.arg.history = << 100, 120, 90, 130 >>
    /\ call.res.maxDrawdown = Div(30, 120)

\* C24 (as claimed): with startingCapital = 0, calculatePortfolioMetrics of the
\* merge-ready revision divides by a zero denominator nowhere, for any balance
\* history, returnPercentage is 0, and returnPercentage and maxDrawdown are finite.
C24_NoZeroDenominator ==
    (call.fn = "calculatePortfolioMetrics" /\ call.arg.startingCapital = 0) =>
        /\ 0 \notin call.res.divisors
        /\ call.res.returnPercentage = Num(0)
        /\ call.res.maxDrawdown.kind = "finite"
        /\ \A i \in 1..Len(call.res.dailyReturns) :
              call.res.dailyReturns[i].kind = "finite"

(***************************************************************************)
(* v2.4: the four filter controls next to the trade table.  In this        *)
(* specification call.arg holds the values of the controls.                *)
(***************************************************************************)
\* The page is constructed; the controls are empty.
TableInit ==
    /\ Constructed("v2.4")
    /\ call = Call("controls", [ticker |-> "", strategy |-> "", from |-> 0, to |-> 0],
                   << >>)

\* A control is changed: its change listener runs applyFilters.  "" and day 0 are
\* the empty control.
filterChange ==
    /\ rev = "v2.4"
    /\ listeners
    /\ \E f \in [ticker : {"", "QQQ"}, strategy : {""}, from : {0, MaxDate}, to : {0}] :
          /\ call' = Call("controls", f, << >>)
          /\ filteredTrades' = getFilteredTrades(trades, f)
    /\ UNCHANGED << rev, page, listeners, store, nextId, settingsStore, trades,
                    startingCapital, currentBalance, previewData, batch, flows, pending,
                    shown, adjustments, lastAdd, failed, overlapped, ops,
                    portfolioHistory >>

\* The reset button: the controls are emptied and every trade is shown.
resetFilters ==
    /\ rev = "v2.4"
    /\ listeners
    /\ call' = Call("controls", [ticker |-> "", strategy |-> "", from |-> 0, to |-> 0],
                    << >>)
    /\ filteredTrades' = trades
    /\ UNCHANGED << rev, page, listeners, store, nextId, settingsStore, trades,
                    startingCapital, currentBalance, previewData, batch, flows, pending,
                    shown, adjustments, lastAdd, failed, overlapped, ops,
                    portfolioHistory >>

TableNext ==
    \/ init
    \/ filterChange
    \/ resetFilters
    \/ \E date \in 0..MaxDate : handleAddTradeOf(Form(date, "spy", "CSP", "30", ""))
    \/ handleAddTrade_add
    \/ handleAddTrade_save
    \/ handleEditTrade
    \/ handleEditTrade_get
    \/ handleEditTrade_put
    \/ handleEditTrade_save
    \/ deleteTrade
    \/ deleteTrade_get
    \/ deleteTrade_save
    \/ deleteTrade_delete
    \/ handleFileUpload
    \/ commitImport
    \/ commitImport_clear
    \/ commitImport_add
    \/ commitImport_save

TableSpec == TableInit /\ [][TableNext]_vars

\* C25 (as claimed): in v2.4, whenever no handler is in flight, filteredTrades is
\* exactly the subsequence of trades that passes the values now set in the four
\* filter controls; in particular every trade of filteredTrades is in trades.
C25_FilteredIsFilterOfTrades ==
    (rev = "v2.4" /\ AtRest /\ call.fn = "controls") =>
        /\ filteredTrades = getFilteredTrades(trades, call.arg)
        /\ \A k \in 1..Len(filteredTrades) :
              \E j \in 1..Len(trades) : trades[j] = filteredTrades[k]

(***************************************************************************)
(* v2.4: editTrade fills the edit form from the stored record, and the     *)
(* form is submitted as it is.                                             *)
(***************************************************************************)
\* The text an input shows for the number assigned to its value.
TextOf(n) ==
    CASE n = -50 -> "-50"
      [] n = 30  -> "30"
      [] n = -1  -> "-1"
      [] n = 29  -> "29"
      [] n = -51 -> "-51"
      [] OTHER   -> "0"

\* The fields editTrade gives the edit form: trade.premium || 0, trade.fees || 0.
editTrade(trade) ==
    Form(trade.date, trade.ticker, trade.strategy, TextOf(trade.premium),
         TextOf(trade.fees))

\* The v2.4 page after its constructor has run.
Init_v24 ==
    /\ Constructed("v2.4")
    /\ call = Call("none", << >>, << >>)

EditNext ==
    \/ init
    \/ \E p \in NumTexts, x \in FeeTexts : handleAddTradeOf(Form(1, "spy", "CSP", p, x))
    \/ handleAddTrade_add
    \/ handleAddTrade_save
    \/ handleFileUpload
    \/ commitImport
    \/ commitImport_clear
    \/ commitImport_add
    \/ commitImport_save
    \/ \E t \in store : t.id \in Ids(filteredTrades) /\ handleEditTradeOf(t.id, editTrade(t))
    \/ handleEditTrade_get
    \/ handleEditTrade_put
    \/ handleEditTrade_save

EditSpec == Init_v24 /\ [][EditNext]_vars

\* C26 (as claimed, for v2.4): when a stored trade, added by the form or imported
\* from CSV, is opened with editTrade and the edit form is submitted unchanged, the
\* record that is written is the stored record and the balance moves by 0.
C26_NoOpEditIsIdentity ==
    \A f \in FlowIds :
        (flows[f].kind = "edit" /\ flows[f].pc = "edit_put" /\ flows[f].solo) =>
            /\ << flows[f].req >> = DbGet(flows[f].id)
            /\ PLDifference(flows[f].req, flows[f].originalPL) = 0

(***************************************************************************)
(* v2.4: uploads and clicks on the commit button only.                     *)
(***************************************************************************)
ImportNext ==
    \/ init
    \/ handleFileUpload
    \/ commitImport
    \/ commitImport_clear
    \/ commitImport_add
    \/ commitImport_save

ImportSpec == Init_v24 /\ [][ImportNext]_vars

\* C27 (as claimed): in v2.4, after one upload and two clicks on the commit button,
\* the second while the first commitImport was still in flight, when the last of the
\* flows finishes with no request rejected every previewed trade has one record in
\* the store and one entry in this.trades, and the balance has grown by the net_pl
\* of the previewed trades once.
C27_ImportedOnce ==
    [][(/\ rev = "v2.4"
        /\ ops = 3
        /\ overlapped
        /\ batch # << >>
        /\ \E f \in FlowIds : flows[f].kind = "import" /\ flows[f].pc = "imp_save"
        /\ AtRest'
        /\ ~failed')
       => /\ Cardinality(store') = Len(batch)
          /\ Len(trades') = Len(batch)
          /\ currentBalance' = startingCapital + SumPL(batch)]_vars

\* C28 (as claimed): in v2.4 (for a delete nothing runs beside, and no write rejected
\* before) and in v3.0, when db.delete is rejected the trade is still in the trade
\* list and the balance, in memory and in the stored portfolioSettings record, has
\* the value it had before the call.
C28_FailedDeleteChangesNothing ==
    [][/\ \A f \in FlowIds :
            (/\ rev = "v2.4" /\ ~failed
             /\ flows[f].kind = "delete" /\ flows[f].pc = "del_delete" /\ flows[f].solo
             /\ flows'[f].pc = "idle" /\ shown'.msg = "error")
                => /\ flows[f].id \in Ids(trades')
                   /\ currentBalance' = flows[f].bal0
                   /\ settingsStore' # << >>
                         => settingsStore'[1].currentBalance = flows[f].bal0
       /\ \A tradeId \in Ids(trades) :
            (confirmDeleteTrade(tradeId) /\ shown'.msg = "error")
                => /\ tradeId \in Ids(trades')
                   /\ currentBalance' = currentBalance
                   /\ settingsStore' = settingsStore
      ]_vars

(***************************************************************************)
(* The merge-ready revision (src/unnamed/part_000): the handlers that      *)
(* write this.portfolioHistory, each run to its end before the next UI     *)
(* event.  Entries dated "today" carry the latest day.                     *)
(***************************************************************************)
\* handleEditTradeSubmit: the record is rebuilt from the edit form; the balance
\* moves by plDifference and an 'edit' entry is added when it is not 0.
handleEditTradeSubmit(id, form) ==
    /\ rev = "merge-ready"
    /\ listeners
    /\ ops < MaxOps
    /\ \E ok \in BOOLEAN, saved \in BOOLEAN, logged \in BOOLEAN :
          IF DbGet(id) = << >>
          THEN /\ shown' = Shown("edit", "error", {}, FALSE)
               /\ UNCHANGED << store, trades, filteredTrades, currentBalance,
                               settingsStore, portfolioHistory, failed >>
          ELSE LET existingTrade == DbGet(id)[1]
                   netPL         == MergeNetPL(form)
                   updatedTrade  == [MergeFormTrade(form) EXCEPT !.id = id]
                   plDifference  == netPL - existingTrade.net_pl
                   inList        == ReplaceAtIndex(trades, id, updatedTrade)
               IN  IF ~ok
                   THEN /\ shown' = Shown("edit", "error", {}, TRUE)
                        /\ failed' = TRUE
                        /\ UNCHANGED << store, trades, filteredTrades, currentBalance,
                                        settingsStore, portfolioHistory >>
                   ELSE /\ store' = StoreAfterPut(updatedTrade)
                        /\ trades' = inList
                        /\ filteredTrades' = inList
                        /\ currentBalance' = currentBalance + plDifference
                        /\ settingsStore' =
                               IF plDifference # 0 /\ saved
                               THEN <<Settings(startingCapital,
                                               currentBalance + plDifference)>>
                               ELSE settingsStore
                        /\ portfolioHistory' =
                               IF plDifference # 0
                               THEN addPortfolioHistoryEntry(portfolioHistory,
                                        HistoryEntry(updatedTrade.date,
                                                     currentBalance + plDifference,
                                                     plDifference, "edit",
                                                     currentBalance),
                                        logged)
                               ELSE portfolioHistory
                        /\ shown' = Shown("edit", "success", {},
                                          plDifference # 0 /\ ~saved)
                        /\ failed' = (failed \/ (plDifference # 0 /\ ~saved))
    /\ lastAdd' = << >>
    /\ ops' = ops + 1
    /\ UNCHANGED << call, rev, page, listeners, nextId, startingCapital, previewData,
                    batch, flows, pending, adjustments, overlapped >>

\* handleBalanceUpdate: a deposit, withdrawal or adjustment of a non-zero amount.
handleBalanceUpdate(amount) ==
    /\ rev = "merge-ready"
    /\ listeners
    /\ ops < MaxOps
    /\ IF ParseFloatOr(amount, 0) = 0
       THEN /\ shown' = Shown("balance", "error", {}, FALSE)
            /\ UNCHANGED << currentBalance, settingsStore, portfolioHistory, failed >>
       ELSE \E saved \in BOOLEAN, logged \in BOOLEAN :
               /\ currentBalance' = currentBalance + NumberOf(amount)
               /\ settingsStore' =
                      IF saved
                      THEN <<Settings(startingCapital, currentBalance + NumberOf(amount))>>
                      ELSE settingsStore
               /\ portfolioHistory' =
                      addPortfolioHistoryEntry(portfolioHistory,
                          HistoryEntry(MaxDate, currentBalance + NumberOf(amount),
                                       NumberOf(amount), "adjustment", currentBalance),
                          logged)
               /\ shown' = Shown("balance", "success", {"amount"}, ~saved)
               /\ failed' = (failed \/ ~saved)
    /\ lastAdd' = << >>
    /\ ops' = ops + 1
    /\ UNCHANGED << call, rev, page, listeners, store, nextId, trades, filteredTrades,
                    startingCapital, previewData, batch, flows, pending, adjustments,
                    overlapped >>

\* handlePortfolioSettings: both fields are taken as entered (|| 0); an 'adjustment'
\* entry records the change of the balance when it is not 0.
handlePortfolioSettings_merge(capital, balance) ==
    /\ rev = "merge-ready"
    /\ listeners
    /\ ops < MaxOps
    /\ LET newStartingCapital == ParseFloatOr(capital, 0)
           newCurrentBalance  == ParseFloatOr(balance, 0)
           balanceDiff        == newCurrentBalance - currentBalance
       IN  \E saved \in BOOLEAN, logged \in BOOLEAN :
              /\ startingCapital' = newStartingCapital
              /\ currentBalance' = newCurrentBalance
              /\ settingsStore' =
                     IF saved THEN <<Settings(newStartingCapital, newCurrentBalance)>>
                     ELSE settingsStore
              /\ portfolioHistory' =
                     IF balanceDiff # 0
                     THEN addPortfolioHistoryEntry(portfolioHistory,
                              HistoryEntry(MaxDate, newCurrentBalance, balanceDiff,
                                           "adjustment", currentBalance),
                              logged)
                     ELSE portfolioHistory
              /\ shown' = Shown("settings", "success", {}, ~saved)
              /\ failed' = (failed \/ ~saved)
    /\ lastAdd' = << >>
    /\ ops' = ops + 1
    /\ UNCHANGED << call, rev, page, listeners, store, nextId, trades, filteredTrades,
                    previewData, batch, flows, pending, adjustments, overlapped >>

\* handleFileUpload, parseCSV: this.previewData is the parsed batch; a file with no
\* data row or no valid row shows an error and keeps the previous preview.
handleFileUpload_merge ==
    /\ rev = "merge-ready"
    /\ listeners
    /\ ops < MaxOps
    /\ \E parsed \in PreviewBatches \cup {<< >>} :
          IF parsed = << >>
          THEN /\ shown' = Shown("upload", "error", {}, FALSE)
               /\ UNCHANGED << previewData, batch >>
          ELSE /\ previewData' = TRUE
               /\ batch' = parsed
               /\ shown' = Shown("upload", "success", {"trades.length"}, FALSE)
    /\ lastAdd' = << >>
    /\ ops' = ops + 1
    /\ UNCHANGED << call, rev, page, listeners, store, nextId, settingsStore, trades,
                    filteredTrades, startingCapital, currentBalance, flows, pending,
                    adjustments, failed, overlapped, portfolioHistory >>

\* A variant of the next definition: the existing entries are kept in both modes.
KeptOnImport_Append(mode, list) == list

\* if (mode === 'replace') this.trades = [...addedTrades];
\* else this.trades = [...addedTrades, ...this.trades]
KeptOnImport(mode, list) == IF mode = "replace" THEN << >> ELSE list

\* The loop over this.previewData from row k on: a row whose db.add is rejected is
\* logged and skipped.  added: the rows that were added, with their ids.
RECURSIVE AddEach(_, _, _, _, _)
AddEach(st, nid, b, oks, k) ==
    IF k > Len(b)
    THEN [store |-> st, nextId |-> nid, added |-> << >>]
    ELSE IF ~oks[k]
    THEN AddEach(st, nid, b, oks, k + 1)
    ELSE LET r == AddEach(st \cup {[Clone(b[k]) EXCEPT !.id = nid]}, nid + 1, b, oks,
                          k + 1)
         IN  [r EXCEPT !.added = << [b[k] EXCEPT !.id = nid] >> \o @]

\* The entries added for tradesByDate, in the order of the dates' first rows: one
\* for each date whose amount is not 0, all with the balance after the import.
RECURSIVE ImportEntries(_, _, _, _, _)
ImportEntries(history, added, k, before, logged) ==
    IF k > Len(added)
    THEN history
    ELSE LET date   == added[k].date
             first  == \A j \in 1..(k - 1) : added[j].date # date
             amount == SumPL(SelectSeq(added, LAMBDA t : t.date = date))
         IN  IF first /\ amount # 0
             THEN ImportEntries(
                      addPortfolioHistoryEntry(history,
                          HistoryEntry(date, before + SumPL(added), amount, "import",
                                       before),
                          logged[k]),
                      added, k + 1, before, logged)
             ELSE ImportEntries(history, added, k + 1, before, logged)

\* commitImport: replace mode asks for confirmation, clears both stores (cleared: how
\* many of the two db.clear succeeded; a rejected one ends in the catch block) and
\* resets the balance to the starting capital; then the rows are added, the balance
\* grows by totalPL and the history entries are written.
commitImport_merge(mode, confirmed, cleared, oks, saved, logged) ==
    /\ rev = "merge-ready"
    /\ listeners
    /\ ops < MaxOps
    /\ IF ~previewData \/ batch = << >>
       THEN /\ shown' = Shown("import", "error", {}, FALSE)
            /\ UNCHANGED << store, nextId, trades, filteredTrades, currentBalance,
                            settingsStore, portfolioHistory, previewData, batch,
                            failed >>
       ELSE IF mode = "replace" /\ ~confirmed
       THEN /\ shown' = Shown("import", "none", {}, FALSE)
            /\ UNCHANGED << store, nextId, trades, filteredTrades, currentBalance,
                            settingsStore, portfolioHistory, previewData, batch,
                            failed >>
       ELSE IF mode = "replace" /\ cleared < 2
       THEN /\ shown' = Shown("import", "error", {}, TRUE)
            /\ failed' = TRUE
            /\ store' = IF cleared = 1 THEN {} ELSE store
            /\ UNCHANGED << nextId, trades, filteredTrades, currentBalance,
                            settingsStore, portfolioHistory, previewData, batch >>
       ELSE LET before  == IF mode = "replace" THEN startingCapital ELSE currentBalance
                r       == AddEach(IF mode = "replace" THEN {} ELSE store, nextId,
                                   batch, oks, 1)
                totalPL == SumPL(r.added)
                list    == SortByDateDesc(r.added \o KeptOnImport(mode, trades))
            IN  /\ store' = r.store
                /\ nextId' = r.nextId
                /\ trades' = list
                /\ filteredTrades' = list
                /\ currentBalance' = before + totalPL
                /\ settingsStore' =
                       IF saved THEN <<Settings(startingCapital, before + totalPL)>>
                       ELSE settingsStore
                /\ portfolioHistory' =
                       ImportEntries(KeptOnImport(mode, portfolioHistory), r.added, 1,
                                     before, logged)
                /\ shown' = Shown("import", "success", {"addedTrades.length", "totalPL"},
                                  ~saved \/ \E k \in 1..Len(batch) : ~oks[k])
                /\ previewData' = FALSE
                /\ batch' = << >>
                /\ failed' = (failed \/ ~saved \/ \E k \in 1..Len(batch) : ~oks[k])
    /\ lastAdd' = << >>
    /\ ops' = ops + 1
    /\ UNCHANGED << call, rev, page, listeners, startingCapital, flows, pending,
                    adjustments, overlapped >>

LedgerInit ==
    /\ Constructed("merge-ready")
    /\ call = Call("none", << >>, << >>)

LedgerNext ==
    \/ init_merge
    \/ \E p \in NumTexts : handleAddTrade_merge(MergeForm(1, "spy", "CSP", "", "", "", p, ""))
    \/ \E id \in Ids(trades), p \in NumTexts :
          handleEditTradeSubmit(id, MergeForm(1, "spy", "CSP", "", "", "", p, ""))
    \/ \E amount \in {"", "30"} : handleBalanceUpdate(amount)
    \/ \E capital \in CapitalTexts, balance \in BalanceTexts :
          handlePortfolioSettings_merge(capital, balance)
    \/ handleFileUpload_merge
    \/ \E mode \in {"append", "replace"}, confirmed \in BOOLEAN, cleared \in 0..2,
          oks \in [1..Len(batch) -> BOOLEAN], saved \in BOOLEAN,
          logged \in [1..Len(batch) -> BOOLEAN] :
          commitImport_merge(mode, confirmed, cleared, oks, saved, logged)

LedgerSpec == LedgerInit /\ [][LedgerNext]_vars

C30_RunningLedger ==
    rev = "merge-ready" =>
        \A k \in 1..Len(portfolioHistory) :
            portfolioHistory[k].balance
                = portfolioHistory[k].before + portfolioHistory[k].change

====
